---- MODULE Spec2Model ----
(***************************************************************************)
(* A model of the command dispatch and stateful-interaction layer of the   *)
(* bot: the structured commands (ping, info, ask, watch, purge, sync), the *)
(* owner-only text commands (load, unload, reload, shutdown), the purge    *)
(* confirmation view, the two error handlers, the history hook, the        *)
(* migration runner, the startup and shutdown of the process, and the two  *)
(* pure functions split_response and _get_prefix.                          *)
(*                                                                         *)
(* Every coroutine is cut at its await points: one action is the code      *)
(* between two awaits, and the event loop interleaves the actions of the   *)
(* handlers, the view callbacks and the view's timeout task.  A call to    *)
(* the platform (send, edit, defer, bulk delete, sync) either succeeds or  *)
(* raises; the outcome is the "ok" the action draws.                       *)
(***************************************************************************)
EXTENDS Integers, Sequences, FiniteSets, TLC

(* ---------------------------- bounds ---------------------------------- *)
\* Button clicks that reach one confirmation prompt.
MaxClicks == 3
\* Full batches the channel holds when a purge starts.
MaxBatches == 2
\* Messages that arrive in the channel while a purge loop runs.
MaxArrivals == 1
\* Consecutive run_migrations calls on one storage file.
MaxRuns == 3
\* Chunks split_response cuts a generated text into.
MaxChunks == 2
\* Connection-ready events of one process lifetime.
MaxReady == 2
\* Characters of a text given to split_response.
MaxLen == 5
\* The largest max_length split_response is called with.
MaxWidth == 4
\* Calls of set_guild_prefix and get_guild_settings in one run.
MaxCalls == 4

(* ----------------------- program constants ---------------------------- *)
\* channel.purge(limit=100) and the loop's exit test len(deleted) < 100.
BatchSize == 100

Invs == {1, 2}
Users == {"u1", "u2"}
Channels == {"c1", "c2"}
Buttons == {"Confirm", "Cancel"}
\* Sizes of the last, partial batch of a channel.
Remainders == {0, 1, 50, 99}

\* The extensions _load_cogs loads that carry commands or listeners.
Cogs == {"admin", "general", "gemini", "watch2gether", "moderation"}
SlashCommands == {"ping", "info", "ask", "watch", "purge", "sync"}
TextCommands == {"load", "unload", "reload", "shutdown"}
OwnerCommands == TextCommands \cup {"sync"}
CogOf(c) ==
    CASE c \in {"ping", "info"} -> "general"
      [] c = "ask" -> "gemini"
      [] c = "watch" -> "watch2gether"
      [] c = "purge" -> "moderation"
      [] OTHER -> "admin"

VARIABLES
    active,        \* the invocations that exist in this run
    cmd,           \* cmd[i]: the command of invocation i
    user,          \* user[i]: interaction.user.id / ctx.author.id
    arg,           \* arg[i]: the cog a load/unload/reload names, guild_only of sync
    pc,            \* pc[i]: the await point the handler of i stands at
    ia,            \* ia[i]: the interaction's response state
    owner_ids,     \* InfiBot.owner_ids
    gemini,        \* InfiBot.gemini is not None
    extensions,    \* the loaded extensions
    syncs,         \* tree.sync() calls issued
    closed,        \* bot.close() was called
    connected,     \* Database._connection is not None
    history,       \* the rows of command_history, in insertion order
    chan,          \* chan[i]: interaction.channel
    isText,        \* isText[i]: isinstance(channel, discord.TextChannel)
    msgs,          \* msgs[c]: deletable messages channel c holds
    arrivals,      \* messages that arrived during a purge loop
    view,          \* view[i]: the ConfirmPurgeView of invocation i
    tasks,         \* tasks[i]: dispatched clicks whose callback has not run yet
    deleted_total, \* deleted_total[i] of Moderation.purge
    chunks,        \* chunks[i]: chunks of /ask still to send
    obs,           \* obs[i]: what invocation i did, as its observer records it
    dbObjects,     \* schema objects the storage file holds
    versionRows,   \* committed rows of schema_version
    txRows,        \* rows inserted in the open transaction, not yet committed
    mpc,           \* the await point run_migrations stands at
    current_version, \* current_version of run_migrations
    version,       \* the loop variable of run_migrations
    stmt,          \* index of the next statement of MIGRATIONS[version]
    issued,        \* schema and watermark statements the current run issued
    runs,          \* run_migrations calls started
    startRows,     \* schema_version rows when the current run started
    spc,           \* the step of main / setup_hook the process stands at
    api_key,       \* settings.gemini_api_key is set
    http_session,  \* InfiBot.http_session: "none", "open", "closed"
    gateway,       \* the gateway connection: "none", "connected", "closed"
    synced,        \* InfiBot._synced
    ready,         \* ready[k]: the on_ready handler of the k-th ready event
    cpc,           \* the step InfiBot.close stands at
    steps,         \* the startup steps completed, in order
    fpc,           \* the line the called function stands at
    text,          \* text of split_response
    max_length,    \* max_length of split_response
    remaining,     \* remaining of split_response
    split_chunks,  \* chunks of split_response
    split_pos,     \* split_pos of the last iteration of split_response
    discord_prefix,\* settings.discord_prefix
    bot_user,      \* bot.user.id
    prefixes,      \* what _get_prefix returned
    guild_settings,\* the rows of the guild_settings table
    last_set,      \* last_set[g]: the prefix of the last upsert for guild g
    fetched,       \* the last get_guild_settings call and what it returned
    calls          \* calls of the two guild functions so far

cmdVars == <<active, cmd, user, arg, pc, ia, owner_ids, gemini, extensions, syncs,
             closed, connected, history, chan, isText, msgs, arrivals, view, tasks,
             deleted_total, chunks, obs>>
migVars == <<dbObjects, versionRows, txRows, mpc, current_version, version, stmt,
             issued, runs, startRows>>
lifeVars == <<spc, api_key, http_session, gateway, synced, ready, cpc, steps>>
fnVars == <<fpc, text, max_length, remaining, split_chunks, split_pos,
            discord_prefix, bot_user, prefixes>>
gsVars == <<guild_settings, last_set, fetched, calls>>
vars == <<cmdVars, migVars, lifeVars, fnVars, gsVars>>
\* What an invocation is given and never changes.
inputVars == <<active, cmd, user, arg, chan, isText, owner_ids, gemini>>
\* The state the invocations share.
botVars == <<extensions, syncs, closed, connected, history>>

Min(a, b) == IF a <= b THEN a ELSE b

RECURSIVE SumSeq(_)
SumSeq(s) == IF s = <<>> THEN 0 ELSE Head(s) + SumSeq(Tail(s))

(* ------------------- the interaction response state ------------------- *)
\* discord.Interaction as the handlers use it: response.is_done(), the initial
\* responses received, the followups and edits sent, and whether a call was
\* made that the platform forbids (a second initial response, or a followup or
\* edit before any).
NewInteraction ==
    [responded |-> FALSE, acks |-> 0, illegal |-> FALSE, followups |-> 0, edits |-> 0]

\* interaction.response.send_message(...)
send_message(x, ok) ==
    IF x.responded THEN [x EXCEPT !.illegal = TRUE]
    ELSE IF ok THEN [x EXCEPT !.responded = TRUE, !.acks = @ + 1]
    ELSE x

\* interaction.response.defer(...)
defer(x, ok) ==
    IF x.responded THEN [x EXCEPT !.illegal = TRUE]
    ELSE IF ok THEN [x EXCEPT !.responded = TRUE, !.acks = @ + 1]
    ELSE x

\* interaction.followup.send(...)
followup_send(x, ok) ==
    IF ~x.responded THEN [x EXCEPT !.illegal = TRUE]
    ELSE IF ok THEN [x EXCEPT !.followups = @ + 1]
    ELSE x

\* interaction.edit_original_response(...)
edit_original_response(x, ok) ==
    IF ~x.responded THEN [x EXCEPT !.illegal = TRUE]
    ELSE IF ok THEN [x EXCEPT !.edits = @ + 1]
    ELSE x

(* ------------------------ the observer's record ----------------------- *)
NewObs ==
    [ firstRes |-> "none",      \* the first resolving event of the session
      resolutions |-> 0,        \* resolving events that changed the session
      authorArrived |-> FALSE,  \* a click of the author was dispatched
      lateClicks |-> 0,         \* clicks the finished view ignored
      lateAuthor |-> FALSE,     \* one of them was the author's
      outcomeRead |-> "none",   \* what purge read after view.wait()
      editReq |-> "none",       \* the content purge asked the prompt to show
      prompt |-> "none",        \* the content the prompt shows
      n0 |-> 0,                 \* messages in the channel when the loop began
      arrived |-> FALSE,        \* a message arrived during the loop
      deleteCalls |-> 0,        \* channel.purge calls issued
      batches |-> <<>>,         \* sizes the successful calls returned
      failedAt |-> 0,           \* the call that raised (0: none)
      errReport |-> -1,         \* the total of the error followup (-1: none)
      doneReport |-> -1,        \* the total of the completion notice
      chanSends |-> 0,          \* channel.send calls that succeeded
      handlerMsgs |-> 0,        \* followups and channel messages of the body
      errReplies |-> 0,         \* messages of the error handlers
      denied |-> FALSE,         \* a permission denial was shown
      effects |-> {},           \* side effects this invocation caused
      errKind |-> "none",       \* the failure the handler's try block met
      shown |-> {},             \* kinds of notices the user was shown
      hookFailed |-> FALSE,     \* the history hook raised
      genCalls |-> 0,           \* calls of GeminiService.generate
      noText |-> FALSE,         \* generate_content returned a response without text
      total |-> 0,              \* chunks the generated text was split into
      sends |-> <<>> ]          \* the chunks sent, in order, and how


(* ----------------------- the confirmation view ------------------------ *)
\* ConfirmPurgeView.__init__: the author, the tri-state outcome, and the state
\* of the view the 30-second timeout or stop() finishes ("no": listening).
NewView(author) ==
    [author_id |-> author, confirmed |-> "None", stopped |-> "no",
     notices |-> 0, defers |-> 0]

\* self.stop(): finishes a listening view and cancels its timeout task; on a
\* finished view it changes nothing.
stop(v) == IF v.stopped = "no" THEN [v EXCEPT !.stopped = "stop"] ELSE v

\* confirm without the test of the clicking user.
confirm_AnyUser(v, u) ==
    [stop([v EXCEPT !.confirmed = "True"]) EXCEPT !.defers = @ + 1]

\* ConfirmPurgeView.confirm, called by user u.
confirm(v, u) ==
    IF u # v.author_id
    THEN [v EXCEPT !.notices = @ + 1]
    ELSE [stop([v EXCEPT !.confirmed = "True"]) EXCEPT !.defers = @ + 1]

\* ConfirmPurgeView.cancel, called by user u.
cancel(v, u) ==
    IF u # v.author_id
    THEN [v EXCEPT !.notices = @ + 1]
    ELSE [stop([v EXCEPT !.confirmed = "False"]) EXCEPT !.defers = @ + 1]

\* The outcome purge reads from view.confirmed after view.wait().
Outcome(v) ==
    CASE v.confirmed = "None" -> "timeout"
      [] v.confirmed = "False" -> "cancel"
      [] OTHER -> "confirm"

\* The prompt contents with the timed-out branch showing the plain notice.
PromptFor_NoTimeoutNotice(v) ==
    IF v.confirmed = "True" THEN "Purging messages..." ELSE "Purge cancelled."

\* The content purge edits the prompt to, by the outcome it read.
PromptFor(v) ==
    CASE v.confirmed = "None" -> "Purge cancelled (timed out)."
      [] v.confirmed = "False" -> "Purge cancelled."
      [] OTHER -> "Purging messages..."

\* A resolving event e of session i, as the observer counts it.
Resolve(o, e) ==
    [o EXCEPT !.firstRes = IF @ = "none" THEN e ELSE @, !.resolutions = @ + 1]

\* The clicks that reached the prompt of invocation i so far.
Clicks(i) ==
    Cardinality(tasks[i]) + view[i].notices + view[i].defers + obs[i].lateClicks

\* A click of user u on button b reaches the listening view: the framework
\* creates the task that will run the callback.
DispatchClick(i, u, b) ==
    /\ pc[i] = "wait"
    /\ view[i].stopped = "no"
    /\ Clicks(i) < MaxClicks
    /\ tasks' = [tasks EXCEPT ![i] = @ \cup {[u |-> u, b |-> b, n |-> Clicks(i) + 1]}]
    /\ obs' = [obs EXCEPT ![i].authorArrived = @ \/ (u = view[i].author_id)]
    /\ UNCHANGED <<inputVars, botVars, pc, ia, msgs, arrivals, view, deleted_total, chunks>>
    /\ UNCHANGED <<gsVars, fnVars, migVars, lifeVars>>

\* A click reaches a view that is already finished: the framework ignores it.
DropClick(i, u, b) ==
    /\ pc[i] = "wait"
    /\ view[i].stopped # "no"
    /\ Clicks(i) < MaxClicks
    /\ obs' = [obs EXCEPT ![i].lateClicks = @ + 1,
                          ![i].lateAuthor = @ \/ (u = view[i].author_id)]
    /\ UNCHANGED <<inputVars, botVars, pc, ia, msgs, arrivals, view, tasks, deleted_total, chunks>>
    /\ UNCHANGED <<gsVars, fnVars, migVars, lifeVars>>

\* A click whose callback writes the outcome of every view in existence.
RunClick_EveryView(i, t) ==
    /\ t \in tasks[i]
    /\ \A o \in tasks[i] : t.n <= o.n
    /\ tasks' = [tasks EXCEPT ![i] = @ \ {t}]
    /\ view' = [k \in Invs |-> IF t.b = "Confirm" THEN confirm(view[k], view[k].author_id)
                                                   ELSE cancel(view[k], view[k].author_id)]
    /\ obs' = [obs EXCEPT ![i] =
                 IF t.u = view[i].author_id
                 THEN Resolve(@, IF t.b = "Confirm" THEN "confirm" ELSE "cancel")
                 ELSE @]
    /\ UNCHANGED <<inputVars, botVars, pc, ia, msgs, arrivals, deleted_total, chunks>>
    /\ UNCHANGED <<gsVars, fnVars, migVars, lifeVars>>

\* The task of a dispatched click runs its callback up to the callback's
\* first await.  The event loop runs the tasks in the order they were created.
RunClick(i, t) ==
    /\ t \in tasks[i]
    /\ \A o \in tasks[i] : t.n <= o.n
    /\ tasks' = [tasks EXCEPT ![i] = @ \ {t}]
    /\ view' = [view EXCEPT ![i] = IF t.b = "Confirm" THEN confirm(@, t.u)
                                                       ELSE cancel(@, t.u)]
    /\ obs' = [obs EXCEPT ![i] =
                 IF t.u = view[i].author_id
                 THEN Resolve(@, IF t.b = "Confirm" THEN "confirm" ELSE "cancel")
                 ELSE @]
    /\ UNCHANGED <<inputVars, botVars, pc, ia, msgs, arrivals, deleted_total, chunks>>
    /\ UNCHANGED <<gsVars, fnVars, migVars, lifeVars>>

\* The view's timeout task fires: timeout=30 elapsed on a listening view.
Timeout(i) ==
    /\ pc[i] = "wait"
    /\ view[i].stopped = "no"
    /\ view' = [view EXCEPT ![i].stopped = "timeout"]
    /\ obs' = [obs EXCEPT ![i] = Resolve(@, "timeout")]
    /\ UNCHANGED <<inputVars, botVars, pc, ia, msgs, arrivals, tasks, deleted_total, chunks>>
    /\ UNCHANGED <<gsVars, fnVars, migVars, lifeVars>>


(* --------------------------- Moderation.purge ------------------------- *)
\* purge up to its first await: the channel test, then the prompt with the view.
PurgeStart(i) ==
    /\ pc[i] = "start" /\ cmd[i] = "purge"
    /\ \E ok \in BOOLEAN :
         /\ ia' = [ia EXCEPT ![i] = send_message(@, ok)]
         /\ pc' = [pc EXCEPT ![i] =
                     IF ~ok THEN "raised"
                     ELSE IF ~isText[i] THEN "returned"
                     ELSE "wait"]
         /\ obs' = [obs EXCEPT ![i].prompt =
                      IF ok /\ isText[i] THEN "Are you sure?"
                      ELSE IF ok THEN "text channels only" ELSE @]
    /\ UNCHANGED <<inputVars, botVars, msgs, arrivals, view, tasks, deleted_total, chunks>>
    /\ UNCHANGED <<gsVars, fnVars, migVars, lifeVars>>

\* The tests after view.wait() without the "not view.confirmed" one.
AfterWait_NoDeclineTest(v) == IF v.confirmed = "None" THEN "returned" ELSE "loop"

\* Where purge goes on after the two tests of view.confirmed: to the delete
\* loop when it is True, to the return otherwise.
AfterWait(v) == IF v.confirmed = "True" THEN "loop" ELSE "returned"

\* view.wait() returned: purge reads view.confirmed and edits the prompt.  The
\* wake-up of purge is queued when the view finishes, behind the click tasks
\* created before that, so those have run when purge resumes.
PurgeResume(i) ==
    /\ pc[i] = "wait"
    /\ view[i].stopped # "no"
    /\ tasks[i] = {}
    /\ \E ok \in BOOLEAN :
         /\ ia' = [ia EXCEPT ![i] = edit_original_response(@, ok)]
         /\ pc' = [pc EXCEPT ![i] =
                     IF ~ok THEN "raised"
                     ELSE AfterWait(view[i])]
         /\ obs' = [obs EXCEPT ![i].outcomeRead = Outcome(view[i]),
                               ![i].editReq = PromptFor(view[i]),
                               ![i].prompt = IF ok THEN PromptFor(view[i]) ELSE @,
                               ![i].n0 = msgs[chan[i]]]
    /\ deleted_total' = [deleted_total EXCEPT ![i] = 0]
    /\ UNCHANGED <<inputVars, botVars, msgs, arrivals, view, tasks, chunks>>
    /\ UNCHANGED <<gsVars, fnVars, migVars, lifeVars>>

\* What channel.purge(limit=100) deletes of a channel holding n messages.
PurgeBatchSize(n) == Min(BatchSize, n)

\* An exit test that also leaves on a full batch.
LoopExits_OnFullBatch(deleted) == deleted <= BatchSize

\* The loop's exit test: len(deleted) < 100.
LoopExits(deleted) == deleted < BatchSize

\* A total that keeps the last batch only.
Accumulate_LastBatchOnly(total, deleted) == deleted

\* deleted_total += len(deleted)
Accumulate(total, deleted) == total + deleted

\* One pass of the while loop: channel.purge(limit=100), the running total,
\* the exit test; an HTTPException leaves the loop for the except clause.
PurgeBatch(i) ==
    /\ pc[i] = "loop"
    /\ \E ok \in BOOLEAN :
         LET deleted == PurgeBatchSize(msgs[chan[i]]) IN
         IF ok
         THEN /\ msgs' = [msgs EXCEPT ![chan[i]] = @ - deleted]
              /\ deleted_total' = [deleted_total EXCEPT ![i] = Accumulate(@, deleted)]
              /\ pc' = [pc EXCEPT ![i] = IF LoopExits(deleted) THEN "notify" ELSE "loop"]
              /\ obs' = [obs EXCEPT ![i].deleteCalls = @ + 1,
                                    ![i].batches = Append(@, deleted)]
         ELSE /\ pc' = [pc EXCEPT ![i] = "purge_err"]
              /\ obs' = [obs EXCEPT ![i].deleteCalls = @ + 1,
                                    ![i].failedAt = obs[i].deleteCalls + 1,
                                    ![i].errKind = "platform"]
              /\ UNCHANGED <<msgs, deleted_total>>
    /\ UNCHANGED <<inputVars, botVars, ia, arrivals, view, tasks, chunks>>
    /\ UNCHANGED <<gsVars, fnVars, migVars, lifeVars>>

\* The except clause: the followup that reports the failure and the total so far.
PurgeError(i) ==
    /\ pc[i] = "purge_err"
    /\ \E ok \in BOOLEAN :
         /\ ia' = [ia EXCEPT ![i] = followup_send(@, ok)]
         /\ pc' = [pc EXCEPT ![i] = IF ok THEN "returned" ELSE "raised"]
         /\ obs' = [obs EXCEPT ![i].errReport = IF ok THEN deleted_total[i] ELSE @,
                               ![i].handlerMsgs = IF ok THEN @ + 1 ELSE @,
                               ![i].shown = IF ok THEN @ \cup {"raw"} ELSE @]
    /\ UNCHANGED <<inputVars, botVars, msgs, arrivals, view, tasks, deleted_total, chunks>>
    /\ UNCHANGED <<gsVars, fnVars, migVars, lifeVars>>

\* The completion notice sent to the channel after the loop.
PurgeNotify(i) ==
    /\ pc[i] = "notify"
    /\ \E ok \in BOOLEAN :
         /\ pc' = [pc EXCEPT ![i] = IF ok THEN "returned" ELSE "raised"]
         /\ obs' = [obs EXCEPT ![i].doneReport = IF ok THEN deleted_total[i] ELSE @,
                               ![i].chanSends = IF ok THEN @ + 1 ELSE @,
                               ![i].handlerMsgs = IF ok THEN @ + 1 ELSE @]
    /\ UNCHANGED <<inputVars, botVars, ia, msgs, arrivals, view, tasks, deleted_total, chunks>>
    /\ UNCHANGED <<gsVars, fnVars, migVars, lifeVars>>

\* A user posts a message in channel c while a purge loop runs on it.
NewMessage(c) ==
    /\ arrivals < MaxArrivals
    /\ \E i \in active : pc[i] = "loop" /\ chan[i] = c
    /\ arrivals' = arrivals + 1
    /\ msgs' = [msgs EXCEPT ![c] = @ + 1]
    /\ obs' = [i \in Invs |->
                 IF i \in active /\ pc[i] = "loop" /\ chan[i] = c
                 THEN [obs[i] EXCEPT !.arrived = TRUE] ELSE obs[i]]
    /\ UNCHANGED <<inputVars, botVars, pc, ia, view, tasks, deleted_total, chunks>>
    /\ UNCHANGED <<gsVars, fnVars, migVars, lifeVars>>


(* ----------------------- General.ping, General.info ------------------- *)
\* ping and info: one immediate response.
Reply(i) ==
    /\ pc[i] = "start" /\ cmd[i] \in {"ping", "info"}
    /\ \E ok \in BOOLEAN :
         /\ ia' = [ia EXCEPT ![i] = send_message(@, ok)]
         /\ pc' = [pc EXCEPT ![i] = IF ok THEN "returned" ELSE "raised"]
    /\ UNCHANGED <<inputVars, botVars, msgs, arrivals, view, tasks, deleted_total,
                   chunks, obs>>
    /\ UNCHANGED <<gsVars, fnVars, migVars, lifeVars>>

(* ------------------------------ Gemini.ask ---------------------------- *)
\* ask up to its first await: the configuration-error response when the
\* adapter is absent, the defer otherwise.
AskStart(i) ==
    /\ pc[i] = "start" /\ cmd[i] = "ask"
    /\ \E ok \in BOOLEAN :
         IF ~gemini
         THEN /\ ia' = [ia EXCEPT ![i] = send_message(@, ok)]
              /\ pc' = [pc EXCEPT ![i] = IF ok THEN "returned" ELSE "raised"]
              /\ obs' = [obs EXCEPT ![i].shown = IF ok THEN @ \cup {"config"} ELSE @]
         ELSE /\ ia' = [ia EXCEPT ![i] = defer(@, ok)]
              /\ pc' = [pc EXCEPT ![i] = IF ok THEN "generate" ELSE "raised"]
              /\ obs' = obs
    /\ UNCHANGED <<inputVars, botVars, msgs, arrivals, view, tasks, deleted_total,
                   chunks>>
    /\ UNCHANGED <<gsVars, fnVars, migVars, lifeVars>>

\* The failures the try block of a handler can meet: one of the upstream API
\* (transport, HTTP status), or any other exception.
FailureKinds == {"upstream", "unclassified"}

\* What generate_content does: it raises (a failure of either kind), or it
\* returns a response whose text split_response cuts into n chunks; n = 0
\* stands for a response without text.
UpstreamResults ==
    [kind : FailureKinds, n : {0}] \cup [kind : {"text"}, n : 0..MaxChunks]

\* A generate that returns the empty text of a response.
generate_ReturnsEmptyText(r) ==
    IF r.kind = "text" /\ r.n = 0 THEN [kind |-> "text", n |-> 1] ELSE r

\* GeminiService.generate after generate_content: an upstream exception
\* passes through, a response without text raises ValueError("Empty response
\* from Gemini"), any other response is returned.
generate(r) ==
    IF r.kind = "text" /\ r.n = 0 THEN [kind |-> "empty", n |-> 0] ELSE r

\* A send order that starts with the last chunk.
NextChunk_LastFirst(total, left) == left

\* The chunk the handler sends next when left of total are unsent: chunks[0]
\* first, then chunks[1:] in list order.
NextChunk(total, left) == total - left + 1

\* self.gemini.generate(prompt) and split_response inside channel.typing(): a
\* text of n chunks, or an exception.
AskGenerate(i) ==
    /\ pc[i] = "generate"
    /\ \E r \in UpstreamResults :
         LET g == generate(r) IN
         /\ chunks' = [chunks EXCEPT ![i] = g.n]
         /\ pc' = [pc EXCEPT ![i] = IF g.kind = "text" THEN "first" ELSE "except"]
         /\ obs' = [obs EXCEPT ![i].errKind = IF g.kind = "text" THEN @ ELSE g.kind,
                               ![i].genCalls = @ + 1,
                               ![i].noText = (r.kind = "text" /\ r.n = 0),
                               ![i].total = g.n]
    /\ UNCHANGED <<inputVars, botVars, ia, msgs, arrivals, view, tasks, deleted_total>>
    /\ UNCHANGED <<gsVars, fnVars, migVars, lifeVars>>

\* interaction.followup.send(chunks[0])
AskFirst(i) ==
    /\ pc[i] = "first"
    /\ \E ok \in BOOLEAN :
         /\ ia' = [ia EXCEPT ![i] = followup_send(@, ok)]
         /\ chunks' = [chunks EXCEPT ![i] = IF ok THEN @ - 1 ELSE @]
         /\ pc' = [pc EXCEPT ![i] =
                     IF ~ok THEN "except"
                     ELSE IF chunks[i] = 1 THEN "returned" ELSE "rest"]
         /\ obs' = [obs EXCEPT ![i].handlerMsgs = IF ok THEN @ + 1 ELSE @,
                               ![i].errKind = IF ok THEN @ ELSE "unclassified",
                               ![i].sends =
                                  IF ok THEN Append(@, [chunk |-> NextChunk(obs[i].total, chunks[i]),
                                                        via |-> "followup"])
                                  ELSE @]
    /\ UNCHANGED <<inputVars, botVars, msgs, arrivals, view, tasks, deleted_total>>
    /\ UNCHANGED <<gsVars, fnVars, migVars, lifeVars>>

\* interaction.channel.send(chunk) for one of chunks[1:]
AskRest(i) ==
    /\ pc[i] = "rest"
    /\ \E ok \in BOOLEAN :
         /\ chunks' = [chunks EXCEPT ![i] = IF ok THEN @ - 1 ELSE @]
         /\ pc' = [pc EXCEPT ![i] =
                     IF ~ok THEN "except"
                     ELSE IF chunks[i] = 1 THEN "returned" ELSE "rest"]
         /\ obs' = [obs EXCEPT ![i].handlerMsgs = IF ok THEN @ + 1 ELSE @,
                               ![i].errKind = IF ok THEN @ ELSE "unclassified",
                               ![i].sends =
                                  IF ok THEN Append(@, [chunk |-> NextChunk(obs[i].total, chunks[i]),
                                                        via |-> "channel"])
                                  ELSE @]
    /\ UNCHANGED <<inputVars, botVars, ia, msgs, arrivals, view, tasks, deleted_total>>
    /\ UNCHANGED <<gsVars, fnVars, migVars, lifeVars>>

\* The except clause of ask: the followup that carries the error.
AskExcept(i) ==
    /\ pc[i] = "except" /\ cmd[i] = "ask"
    /\ \E ok \in BOOLEAN :
         /\ ia' = [ia EXCEPT ![i] = followup_send(@, ok)]
         /\ pc' = [pc EXCEPT ![i] = IF ok THEN "returned" ELSE "raised"]
         /\ obs' = [obs EXCEPT ![i].handlerMsgs = IF ok THEN @ + 1 ELSE @,
                               ![i].shown = IF ok THEN @ \cup {"raw"} ELSE @]
    /\ UNCHANGED <<inputVars, botVars, msgs, arrivals, view, tasks, deleted_total, chunks>>
    /\ UNCHANGED <<gsVars, fnVars, migVars, lifeVars>>

(* --------------------------- Watch2Gether.watch ----------------------- *)
\* setup_hook builds the room adapter whenever the HTTP session exists.
w2g == TRUE

\* watch up to its first await.
WatchStart(i) ==
    /\ pc[i] = "start" /\ cmd[i] = "watch"
    /\ \E ok \in BOOLEAN :
         IF ~w2g
         THEN /\ ia' = [ia EXCEPT ![i] = send_message(@, ok)]
              /\ pc' = [pc EXCEPT ![i] = IF ok THEN "returned" ELSE "raised"]
         ELSE /\ ia' = [ia EXCEPT ![i] = defer(@, ok)]
              /\ pc' = [pc EXCEPT ![i] = IF ok THEN "create" ELSE "raised"]
    /\ UNCHANGED <<inputVars, botVars, msgs, arrivals, view, tasks, deleted_total,
                   chunks, obs>>
    /\ UNCHANGED <<gsVars, fnVars, migVars, lifeVars>>

\* self.w2g.create_room(url): a room, or an exception.
WatchCreate(i) ==
    /\ pc[i] = "create"
    /\ \E ok \in BOOLEAN :
         /\ pc' = [pc EXCEPT ![i] = IF ok THEN "room" ELSE "except"]
         /\ IF ok THEN obs' = obs
            ELSE \E k \in FailureKinds : obs' = [obs EXCEPT ![i].errKind = k]
    /\ UNCHANGED <<inputVars, botVars, ia, msgs, arrivals, view, tasks, deleted_total,
                   chunks>>
    /\ UNCHANGED <<gsVars, fnVars, migVars, lifeVars>>

\* interaction.followup.send(embed=embed)
WatchSend(i) ==
    /\ pc[i] = "room"
    /\ \E ok \in BOOLEAN :
         /\ ia' = [ia EXCEPT ![i] = followup_send(@, ok)]
         /\ pc' = [pc EXCEPT ![i] = IF ok THEN "returned" ELSE "except"]
         /\ obs' = [obs EXCEPT ![i].handlerMsgs = IF ok THEN @ + 1 ELSE @,
                               ![i].errKind = IF ok THEN @ ELSE "unclassified"]
    /\ UNCHANGED <<inputVars, botVars, msgs, arrivals, view, tasks, deleted_total, chunks>>
    /\ UNCHANGED <<gsVars, fnVars, migVars, lifeVars>>

\* The except clause of watch.
WatchExcept(i) ==
    /\ pc[i] = "except" /\ cmd[i] = "watch"
    /\ \E ok \in BOOLEAN :
         /\ ia' = [ia EXCEPT ![i] = followup_send(@, ok)]
         /\ pc' = [pc EXCEPT ![i] = IF ok THEN "returned" ELSE "raised"]
         /\ obs' = [obs EXCEPT ![i].handlerMsgs = IF ok THEN @ + 1 ELSE @,
                               ![i].shown = IF ok THEN @ \cup {"raw"} ELSE @]
    /\ UNCHANGED <<inputVars, botVars, msgs, arrivals, view, tasks, deleted_total, chunks>>
    /\ UNCHANGED <<gsVars, fnVars, migVars, lifeVars>>


(* ------------------------------- Admin -------------------------------- *)
\* self.bot.is_owner(u) with a configured owner-id set.
is_owner(u) == u \in owner_ids

\* sync_commands up to its first await: the owner test inside the body, then
\* the denial or the defer.
SyncStart(i) ==
    /\ pc[i] = "start" /\ cmd[i] = "sync"
    /\ \E ok \in BOOLEAN :
         IF ~is_owner(user[i])
         THEN /\ ia' = [ia EXCEPT ![i] = send_message(@, ok)]
              /\ pc' = [pc EXCEPT ![i] = IF ok THEN "returned" ELSE "raised"]
              /\ obs' = [obs EXCEPT ![i].denied = ok,
                                    ![i].shown = IF ok THEN @ \cup {"owner-only"} ELSE @]
         ELSE /\ ia' = [ia EXCEPT ![i] = defer(@, ok)]
              /\ pc' = [pc EXCEPT ![i] = IF ok THEN "sync" ELSE "raised"]
              /\ obs' = obs
    /\ UNCHANGED <<inputVars, botVars, msgs, arrivals, view, tasks, deleted_total, chunks>>
    /\ UNCHANGED <<gsVars, fnVars, migVars, lifeVars>>

\* self.bot.tree.sync(...), for the guild or globally.
SyncTree(i) ==
    /\ pc[i] = "sync"
    /\ \E ok \in BOOLEAN :
         pc' = [pc EXCEPT ![i] = IF ok THEN "synced" ELSE "raised"]
    /\ syncs' = syncs + 1
    /\ obs' = [obs EXCEPT ![i].effects = @ \cup {"sync"}]
    /\ UNCHANGED <<inputVars, extensions, closed, connected, history, ia, msgs,
                   arrivals, view, tasks, deleted_total, chunks>>
    /\ UNCHANGED <<gsVars, fnVars, migVars, lifeVars>>

\* The followup that reports the number of synced commands.
SyncReply(i) ==
    /\ pc[i] = "synced"
    /\ \E ok \in BOOLEAN :
         /\ ia' = [ia EXCEPT ![i] = followup_send(@, ok)]
         /\ pc' = [pc EXCEPT ![i] = IF ok THEN "returned" ELSE "raised"]
         /\ obs' = [obs EXCEPT ![i].handlerMsgs = IF ok THEN @ + 1 ELSE @]
    /\ UNCHANGED <<inputVars, botVars, msgs, arrivals, view, tasks, deleted_total, chunks>>
    /\ UNCHANGED <<gsVars, fnVars, migVars, lifeVars>>

\* The checks of a text command of the Admin cog (cog_check and
\* @commands.is_owner()): the body runs for an owner, NotOwner is raised otherwise.
TextCheck(i) ==
    /\ pc[i] = "start" /\ cmd[i] \in TextCommands
    /\ pc' = [pc EXCEPT ![i] = IF is_owner(user[i]) THEN "body" ELSE "notowner"]
    /\ UNCHANGED <<inputVars, botVars, ia, msgs, arrivals, view, tasks, deleted_total,
                   chunks, obs>>
    /\ UNCHANGED <<gsVars, fnVars, migVars, lifeVars>>

\* load_cog: load_extension, then the notice (an ExtensionError becomes the
\* failure notice).
LoadCog(i) ==
    /\ pc[i] = "body" /\ cmd[i] = "load"
    /\ extensions' = extensions \cup {arg[i]}
    /\ obs' = [obs EXCEPT ![i].effects =
                 IF arg[i] \in extensions THEN @ ELSE @ \cup {"load"}]
    /\ \E ok \in BOOLEAN : pc' = [pc EXCEPT ![i] = IF ok THEN "done" ELSE "traised"]
    /\ UNCHANGED <<inputVars, syncs, closed, connected, history, ia, msgs, arrivals,
                   view, tasks, deleted_total, chunks>>
    /\ UNCHANGED <<gsVars, fnVars, migVars, lifeVars>>

\* An unload_cog without the test of the name.
unload_cog_NoRefusal(exts, cog) == exts \ {cog}

\* The extensions unload_cog leaves: if cog == "admin" it returns before
\* unload_extension, which removes a loaded extension otherwise.
unload_cog(exts, cog) == IF cog = "admin" THEN exts ELSE exts \ {cog}

\* unload_cog: the refusal for the admin cog, unload_extension otherwise, and
\* the notice sent in either case.
UnloadCog(i) ==
    /\ pc[i] = "body" /\ cmd[i] = "unload"
    /\ extensions' = unload_cog(extensions, arg[i])
    /\ \E ok \in BOOLEAN :
         /\ pc' = [pc EXCEPT ![i] = IF ok THEN "done" ELSE "traised"]
         /\ obs' = [obs EXCEPT ![i].effects =
                      IF arg[i] = "admin" \/ arg[i] \notin extensions THEN @
                      ELSE @ \cup {"unload"},
                               ![i].shown =
                      IF ok /\ arg[i] = "admin" THEN @ \cup {"refused"} ELSE @]
    /\ UNCHANGED <<inputVars, syncs, closed, connected, history, ia, msgs, arrivals,
                   view, tasks, deleted_total, chunks>>
    /\ UNCHANGED <<gsVars, fnVars, migVars, lifeVars>>

\* reload_cog: reload_extension leaves a loaded extension loaded.
ReloadCog(i) ==
    /\ pc[i] = "body" /\ cmd[i] = "reload"
    /\ obs' = [obs EXCEPT ![i].effects =
                 IF arg[i] \in extensions THEN @ \cup {"reload"} ELSE @]
    /\ \E ok \in BOOLEAN : pc' = [pc EXCEPT ![i] = IF ok THEN "done" ELSE "traised"]
    /\ UNCHANGED <<inputVars, botVars, ia, msgs, arrivals, view, tasks, deleted_total,
                   chunks>>
    /\ UNCHANGED <<gsVars, fnVars, migVars, lifeVars>>

\* shutdown: the notice, then bot.close(), which closes the storage connection.
Shutdown(i) ==
    /\ pc[i] = "body" /\ cmd[i] = "shutdown"
    /\ \E ok \in BOOLEAN :
         /\ pc' = [pc EXCEPT ![i] = IF ok THEN "done" ELSE "traised"]
         /\ closed' = (closed \/ ok)
         /\ connected' = (connected /\ ~ok)
         /\ obs' = [obs EXCEPT ![i].effects = IF ok THEN @ \cup {"close"} ELSE @]
    /\ UNCHANGED <<inputVars, extensions, syncs, history, ia, msgs, arrivals, view,
                   tasks, deleted_total, chunks>>
    /\ UNCHANGED <<gsVars, fnVars, migVars, lifeVars>>

(* ------------------------------ the hooks ----------------------------- *)
\* models.log_command on a handle: the row is written when the connection is
\* open and the INSERT and the commit succeed.
log_command(h, rec, ok) == IF connected /\ ok THEN Append(h, rec) ELSE h

\* A completion hook whose storage failure is handed to the error handler of
\* the command.
Completion_FailureToHandler(i) ==
    /\ pc[i] = "returned"
    /\ \E ok \in BOOLEAN :
         LET rec == [inv |-> i, user_id |-> user[i], command_name |-> cmd[i],
                     success |-> TRUE]
             h == IF "general" \in extensions THEN log_command(history, rec, ok)
                  ELSE history
             failed == "general" \in extensions /\ h = history
         IN /\ history' = h
            /\ obs' = [obs EXCEPT ![i].effects =
                         IF h # history THEN @ \cup {"history"} ELSE @,
                                  ![i].hookFailed = failed]
            /\ pc' = [pc EXCEPT ![i] = IF failed THEN "raised" ELSE "done"]
    /\ UNCHANGED <<inputVars, extensions, syncs, closed, connected, ia, msgs,
                   arrivals, view, tasks, deleted_total, chunks>>
    /\ UNCHANGED <<gsVars, fnVars, migVars, lifeVars>>

\* General.on_app_command_completion: the framework dispatches it when the
\* handler of a structured command returned without raising.
Completion(i) ==
    /\ pc[i] = "returned"
    /\ \E ok \in BOOLEAN :
         LET rec == [inv |-> i, user_id |-> user[i], command_name |-> cmd[i],
                     success |-> TRUE]
             h == IF "general" \in extensions THEN log_command(history, rec, ok)
                  ELSE history
         IN /\ history' = h
            /\ obs' = [obs EXCEPT ![i].effects =
                         IF h # history THEN @ \cup {"history"} ELSE @,
                                  ![i].hookFailed = ("general" \in extensions /\ h = history)]
    /\ pc' = [pc EXCEPT ![i] = "done"]
    /\ UNCHANGED <<inputVars, extensions, syncs, closed, connected, ia, msgs,
                   arrivals, view, tasks, deleted_total, chunks>>
    /\ UNCHANGED <<gsVars, fnVars, migVars, lifeVars>>

\* A send_error without the is_done() test.
send_error_NoDoneTest(x, ok) == send_message(x, ok)

\* send_error of on_app_command_error: a followup when the interaction was
\* responded to, the initial response otherwise.
send_error(x, ok) ==
    IF x.responded THEN followup_send(x, ok) ELSE send_message(x, ok)

\* An error handler that ends every invocation in flight with the failing one.
OnAppCommandError_EndsAll(i) ==
    /\ pc[i] = "raised"
    /\ \E ok \in BOOLEAN :
         /\ ia' = [ia EXCEPT ![i] = send_error(@, ok)]
         /\ obs' = [obs EXCEPT ![i].errReplies = IF ok THEN @ + 1 ELSE @,
                               ![i].shown = IF ok THEN @ \cup {"generic"} ELSE @]
    /\ pc' = [k \in Invs |-> IF k \in active THEN "failed" ELSE pc[k]]
    /\ UNCHANGED <<inputVars, botVars, msgs, arrivals, view, tasks, deleted_total, chunks>>
    /\ UNCHANGED <<gsVars, fnVars, migVars, lifeVars>>

\* ErrorHandler.on_app_command_error for a failure the handler raised.
OnAppCommandError(i) ==
    /\ pc[i] = "raised"
    /\ \E ok \in BOOLEAN :
         /\ ia' = [ia EXCEPT ![i] = send_error(@, ok)]
         /\ obs' = [obs EXCEPT ![i].errReplies = IF ok THEN @ + 1 ELSE @,
                               ![i].shown = IF ok THEN @ \cup {"generic"} ELSE @]
    /\ pc' = [pc EXCEPT ![i] = "failed"]
    /\ UNCHANGED <<inputVars, botVars, msgs, arrivals, view, tasks, deleted_total, chunks>>
    /\ UNCHANGED <<gsVars, fnVars, migVars, lifeVars>>

\* ErrorHandler.on_command_error: the owner-only notice for NotOwner, the
\* generic notice for an unexpected failure.
OnCommandError(i) ==
    /\ pc[i] \in {"notowner", "traised"}
    /\ \E ok \in BOOLEAN :
         obs' = [obs EXCEPT ![i].errReplies = IF ok THEN @ + 1 ELSE @,
                            ![i].denied = (pc[i] = "notowner" /\ ok),
                            ![i].shown = IF ~ok THEN @
                                         ELSE IF pc[i] = "notowner" THEN @ \cup {"owner-only"}
                                         ELSE @ \cup {"generic"}]
    /\ pc' = [pc EXCEPT ![i] = "failed"]
    /\ UNCHANGED <<inputVars, botVars, ia, msgs, arrivals, view, tasks, deleted_total,
                   chunks>>
    /\ UNCHANGED <<gsVars, fnVars, migVars, lifeVars>>


(* --------------------------- the migration runner --------------------- *)
\* MIGRATIONS: version -> the schema objects its CREATE ... IF NOT EXISTS
\* statements create, in the order of the list.
MIGRATIONS ==
    1 :> << "schema_version", "command_history", "idx_command_history_guild",
            "idx_command_history_user", "guild_settings", "user_data" >>

SetMax(S) == CHOOSE x \in S : \A y \in S : y <= x
SetMin(S) == CHOOSE x \in S : \A y \in S : x <= y

\* CURRENT_VERSION = max(MIGRATIONS.keys())
CURRENT_VERSION == SetMax(DOMAIN MIGRATIONS)

SchemaObjects == UNION {{MIGRATIONS[v][k] : k \in 1..Len(MIGRATIONS[v])} : v \in DOMAIN MIGRATIONS}

\* get_schema_version over a storage holding the objects objs and the rows
\* the connection sees.  SELECT MAX(version) raises when the table is absent
\* or when the storage fails the query (ok = FALSE), and yields NULL when the
\* table is empty; "except Exception" and the NULL test turn all three into 0.
get_schema_version(objs, rows, ok) ==
    IF ~ok \/ "schema_version" \notin objs THEN 0
    ELSE IF rows = {} THEN 0
    ELSE SetMax(rows)

\* A loop range that stops one version short.
Pending_ExclusiveEnd(cv) == {v \in (cv + 1)..(CURRENT_VERSION - 1) : v \in DOMAIN MIGRATIONS}

\* The versions the for loop of run_migrations applies from watermark cv:
\* range(cv + 1, CURRENT_VERSION + 1) without the undeclared ones.
Pending(cv) == {v \in (cv + 1)..CURRENT_VERSION : v \in DOMAIN MIGRATIONS}

\* The loop's next version after version v (0: the loop is over).
NextVersion(cv, v) ==
    IF {w \in Pending(cv) : w > v} = {} THEN 0
    ELSE SetMin({w \in Pending(cv) : w > v})

\* setup_hook calls run_migrations on the connected storage.
MigStart ==
    /\ mpc = "idle"
    /\ runs < MaxRuns
    /\ runs' = runs + 1
    /\ issued' = 0
    /\ startRows' = versionRows
    /\ mpc' = "read"
    /\ UNCHANGED <<dbObjects, versionRows, txRows, current_version, version, stmt>>
    /\ UNCHANGED <<gsVars, fnVars, cmdVars, lifeVars>>

\* if current_version >= CURRENT_VERSION: return
UpToDate(cv) == cv >= CURRENT_VERSION

\* The watermark read and the up-to-date test; the loop's first version.
MigRead ==
    /\ mpc = "read"
    /\ \E ok \in BOOLEAN :
         LET cv == get_schema_version(dbObjects, versionRows \cup txRows, ok) IN
         /\ current_version' = cv
         /\ IF UpToDate(cv) \/ NextVersion(cv, cv) = 0
            THEN /\ mpc' = "done"
                 /\ UNCHANGED <<version, stmt>>
            ELSE /\ mpc' = "apply"
                 /\ version' = NextVersion(cv, cv)
                 /\ stmt' = 1
    /\ UNCHANGED <<dbObjects, versionRows, txRows, issued, runs, startRows>>
    /\ UNCHANGED <<gsVars, fnVars, cmdVars, lifeVars>>

\* db.execute(sql) for the next statement of MIGRATIONS[version]: the object
\* exists afterwards (the statement is not part of a transaction), or the
\* storage raises.
MigExec ==
    /\ mpc = "apply"
    /\ stmt <= Len(MIGRATIONS[version])
    /\ issued' = issued + 1
    /\ \E ok \in BOOLEAN :
         IF ok
         THEN /\ dbObjects' = dbObjects \cup {MIGRATIONS[version][stmt]}
              /\ stmt' = stmt + 1
              /\ mpc' = mpc
         ELSE /\ mpc' = "raised"
              /\ UNCHANGED <<dbObjects, stmt>>
    /\ UNCHANGED <<versionRows, txRows, current_version, version, runs, startRows>>
    /\ UNCHANGED <<gsVars, fnVars, cmdVars, lifeVars>>

\* An INSERT into a schema_version without its primary key.
MigRecord_NoPrimaryKey ==
    /\ mpc = "apply"
    /\ stmt > Len(MIGRATIONS[version])
    /\ issued' = issued + 1
    /\ \E ok \in BOOLEAN :
         IF ok /\ "schema_version" \in dbObjects
         THEN /\ txRows' = txRows \cup {version}
              /\ mpc' = "commit"
         ELSE /\ mpc' = "raised"
              /\ UNCHANGED txRows
    /\ UNCHANGED <<dbObjects, versionRows, current_version, version, stmt, runs, startRows>>
    /\ UNCHANGED <<gsVars, fnVars, cmdVars, lifeVars>>

\* INSERT INTO schema_version (version) VALUES (version): the row joins the
\* open transaction; a version already recorded violates the primary key.
MigRecord ==
    /\ mpc = "apply"
    /\ stmt > Len(MIGRATIONS[version])
    /\ issued' = issued + 1
    /\ \E ok \in BOOLEAN :
         IF ok /\ "schema_version" \in dbObjects
               /\ version \notin (versionRows \cup txRows)
         THEN /\ txRows' = txRows \cup {version}
              /\ mpc' = "commit"
         ELSE /\ mpc' = "raised"
              /\ UNCHANGED txRows
    /\ UNCHANGED <<dbObjects, versionRows, current_version, version, stmt, runs, startRows>>
    /\ UNCHANGED <<gsVars, fnVars, cmdVars, lifeVars>>

\* db.commit(), then the loop's next version or the return.
MigCommit ==
    /\ mpc = "commit"
    /\ \E ok \in BOOLEAN :
         IF ok
         THEN /\ versionRows' = versionRows \cup txRows
              /\ txRows' = {}
              /\ IF NextVersion(current_version, version) = 0
                 THEN /\ mpc' = "done"
                      /\ UNCHANGED <<version, stmt>>
                 ELSE /\ mpc' = "apply"
                      /\ version' = NextVersion(current_version, version)
                      /\ stmt' = 1
         ELSE /\ mpc' = "raised"
              /\ UNCHANGED <<versionRows, txRows, version, stmt>>
    /\ UNCHANGED <<dbObjects, current_version, issued, runs, startRows>>
    /\ UNCHANGED <<gsVars, fnVars, cmdVars, lifeVars>>

\* The process ends (run_migrations returned or raised and startup aborted) and
\* a new one connects to the same file: what was not committed is gone.
Restart ==
    /\ mpc \in {"done", "raised"}
    /\ runs < MaxRuns
    /\ mpc' = "idle"
    /\ txRows' = {}
    /\ UNCHANGED <<dbObjects, versionRows, current_version, version, stmt, issued,
                   runs, startRows>>
    /\ UNCHANGED <<gsVars, fnVars, cmdVars, lifeVars>>

\* The process dies while run_migrations is running: the storage keeps what
\* was committed, which includes every CREATE statement already executed.
Crash ==
    /\ mpc \in {"read", "apply", "commit"}
    /\ runs < MaxRuns
    /\ mpc' = "idle"
    /\ txRows' = {}
    /\ UNCHANGED <<dbObjects, versionRows, current_version, version, stmt, issued,
                   runs, startRows>>
    /\ UNCHANGED <<gsVars, fnVars, cmdVars, lifeVars>>


(* --------------------------- initial states --------------------------- *)
\* The steps of startup, in the order main and setup_hook take them.
StartupOrder == <<"storage", "migrations", "http", "services", "cogs", "gateway">>

ReadyIds == 1..MaxReady

\* An on_ready handler that was not started.
NoReady == [at |-> "none", sawSynced |-> FALSE, issued |-> FALSE, ok |-> FALSE]

\* InfiBot.close was not called.
NoClose == [at |-> "none", tried |-> {}]

\* The process after a completed startup: connected to the gateway, no ready
\* event handled yet.
Started ==
    /\ spc = "running"
    /\ api_key = gemini
    /\ http_session = "open"
    /\ gateway = "connected"
    /\ synced = FALSE
    /\ ready = [k \in ReadyIds |-> NoReady]
    /\ cpc = NoClose
    /\ steps = StartupOrder

\* The process inside setup_hook, with the storage connection open and
\* run_migrations about to be called.
Migrating ==
    /\ spc = "migrations"
    /\ api_key = TRUE
    /\ http_session = "none"
    /\ gateway = "none"
    /\ synced = FALSE
    /\ ready = [k \in ReadyIds |-> NoReady]
    /\ cpc = NoClose
    /\ steps = <<"storage">>

Guilds == {"g1", "g2"}
\* The values of the prefix column: NULL or a text.
PrefixValues == {"NULL", "!", "?"}

\* No row in guild_settings and no call of the guild functions made.
NoGuildCall ==
    /\ guild_settings = {}
    /\ last_set = [g \in Guilds |-> "unset"]
    /\ fetched = [guild_id |-> "none", result |-> "none"]
    /\ calls = 0

\* Neither split_response nor _get_prefix is being called.
NoCall ==
    /\ fpc = "idle"
    /\ text = <<>>
    /\ max_length = 1
    /\ remaining = <<>>
    /\ split_chunks = <<>>
    /\ split_pos = -1
    /\ discord_prefix = <<"!">>
    /\ bot_user = "b1"
    /\ prefixes = <<>>
    /\ NoGuildCall

\* The storage after a completed startup: every migration applied.
MigratedStorage ==
    /\ dbObjects = SchemaObjects
    /\ versionRows = DOMAIN MIGRATIONS
    /\ txRows = {}
    /\ mpc = "done"
    /\ current_version = CURRENT_VERSION
    /\ version = 0 /\ stmt = 0 /\ issued = 0
    /\ runs = MaxRuns
    /\ startRows = DOMAIN MIGRATIONS

\* No command was invoked.
NoInvocation ==
    /\ active = {}
    /\ cmd = [i \in Invs |-> "none"]
    /\ user = [i \in Invs |-> "u1"]
    /\ arg = [i \in Invs |-> "admin"]
    /\ pc = [i \in Invs |-> "idle"]
    /\ ia = [i \in Invs |-> NewInteraction]
    /\ owner_ids = {"u1"}
    /\ gemini = TRUE
    /\ extensions = Cogs
    /\ syncs = 0
    /\ closed = FALSE
    /\ connected = TRUE
    /\ history = <<>>
    /\ chan = [i \in Invs |-> "c1"]
    /\ isText = [i \in Invs |-> TRUE]
    /\ msgs = [c \in Channels |-> 0]
    /\ arrivals = 0
    /\ view = [i \in Invs |-> NewView("u1")]
    /\ tasks = [i \in Invs |-> {}]
    /\ deleted_total = [i \in Invs |-> 0]
    /\ chunks = [i \in Invs |-> 0]
    /\ obs = [i \in Invs |-> NewObs]

\* The message counts a channel starts a purge with.
InitialCounts == {k * BatchSize + r : k \in 0..MaxBatches, r \in Remainders}

\* One invocation, of any command by any user, on the started bot; the inputs
\* a command does not read keep one value.
Init ==
    /\ MigratedStorage
    /\ active = {1}
    /\ \E c \in SlashCommands \cup TextCommands, u \in Users :
         /\ cmd = [i \in Invs |-> IF i = 1 THEN c ELSE "none"]
         /\ user = [i \in Invs |-> IF i = 1 THEN u ELSE "u1"]
         /\ view = [i \in Invs |-> NewView(IF i = 1 THEN u ELSE "u1")]
         /\ \E a \in (IF c \in {"load", "unload", "reload"} THEN {"admin", "general"}
                      ELSE {"admin"}) :
              arg = [i \in Invs |-> a]
         /\ \E g \in (IF c = "ask" THEN BOOLEAN ELSE {TRUE}) : gemini = g
         /\ \E t \in (IF c = "purge" THEN BOOLEAN ELSE {TRUE}) :
              isText = [i \in Invs |-> t]
         /\ \E n \in (IF c = "purge" THEN InitialCounts ELSE {0}) :
              msgs = [ch \in Channels |-> IF ch = "c1" THEN n ELSE 0]
         /\ \E e \in (IF c = "load" THEN {Cogs, Cogs \ {"general"}} ELSE {Cogs}) :
              extensions = e
    /\ pc = [i \in Invs |-> IF i = 1 THEN "start" ELSE "idle"]
    /\ ia = [i \in Invs |-> NewInteraction]
    /\ owner_ids = {"u1"}
    /\ syncs = 0
    /\ closed = FALSE
    /\ connected = TRUE
    /\ history = <<>>
    /\ chan = [i \in Invs |-> "c1"]
    /\ arrivals = 0
    /\ tasks = [i \in Invs |-> {}]
    /\ deleted_total = [i \in Invs |-> 0]
    /\ chunks = [i \in Invs |-> 0]
    /\ obs = [i \in Invs |-> NewObs]
    /\ Started
    /\ NoCall

Next ==
    \/ \E i \in active : PurgeStart(i)
    \/ \E i \in active, u \in Users, b \in Buttons : DispatchClick(i, u, b)
    \/ \E i \in active, u \in Users, b \in Buttons : DropClick(i, u, b)
    \/ \E i \in active : \E t \in tasks[i] : RunClick(i, t)
    \/ \E i \in active : Timeout(i)
    \/ \E i \in active : PurgeResume(i)
    \/ \E i \in active : PurgeBatch(i)
    \/ \E i \in active : PurgeError(i)
    \/ \E i \in active : PurgeNotify(i)
    \/ \E c \in Channels : NewMessage(c)
    \/ \E i \in active : Reply(i)
    \/ \E i \in active : AskStart(i)
    \/ \E i \in active : AskGenerate(i)
    \/ \E i \in active : AskFirst(i)
    \/ \E i \in active : AskRest(i)
    \/ \E i \in active : AskExcept(i)
    \/ \E i \in active : WatchStart(i)
    \/ \E i \in active : WatchCreate(i)
    \/ \E i \in active : WatchSend(i)
    \/ \E i \in active : WatchExcept(i)
    \/ \E i \in active : SyncStart(i)
    \/ \E i \in active : SyncTree(i)
    \/ \E i \in active : SyncReply(i)
    \/ \E i \in active : TextCheck(i)
    \/ \E i \in active : LoadCog(i)
    \/ \E i \in active : UnloadCog(i)
    \/ \E i \in active : ReloadCog(i)
    \/ \E i \in active : Shutdown(i)
    \/ \E i \in active : Completion(i)
    \/ \E i \in active : OnAppCommandError(i)
    \/ \E i \in active : OnCommandError(i)

Spec == Init /\ [][Next]_vars

\* The storage file a process finds: new, or migrated by an earlier process.
InitMig ==
    /\ NoInvocation
    /\ \/ dbObjects = {} /\ versionRows = {}
       \/ dbObjects = SchemaObjects /\ versionRows = DOMAIN MIGRATIONS
    /\ txRows = {}
    /\ mpc = "idle"
    /\ current_version = 0
    /\ version = 0 /\ stmt = 0 /\ issued = 0
    /\ runs = 0
    /\ startRows = {}
    /\ Migrating
    /\ NoCall

NextMig ==
    \/ MigStart
    \/ MigRead
    \/ MigExec
    \/ MigRecord
    \/ MigCommit
    \/ Restart
    \/ Crash

SpecMig == InitMig /\ [][NextMig]_vars


(* ----------------------- two concurrent invocations ------------------- *)
\* The message counts of the channel the first invocation purges.
PairCounts == {BatchSize + 50}

\* Two invocations in flight on the started bot: a purge by u1 of the text
\* channel c1, and any command by any user; a second purge is one invoked
\* outside a text channel.  Only the author clicks the prompt and no message
\* arrives in the channel.
InitPair ==
    /\ MigratedStorage
    /\ active = {1, 2}
    /\ \E c \in SlashCommands \cup TextCommands, u \in Users :
         /\ cmd = [i \in Invs |-> IF i = 1 THEN "purge" ELSE c]
         /\ user = [i \in Invs |-> IF i = 1 THEN "u1" ELSE u]
         /\ view = [i \in Invs |-> NewView(IF i = 1 THEN "u1" ELSE u)]
         /\ \E a \in (IF c \in {"load", "unload", "reload"} THEN {"admin", "general"}
                      ELSE {"admin"}) :
              arg = [i \in Invs |-> a]
    /\ \E n \in PairCounts : msgs = [ch \in Channels |-> IF ch = "c1" THEN n ELSE 0]
    /\ isText = [i \in Invs |-> i = 1]
    /\ chan = [i \in Invs |-> IF i = 1 THEN "c1" ELSE "c2"]
    /\ gemini = TRUE
    /\ extensions = Cogs
    /\ pc = [i \in Invs |-> "start"]
    /\ ia = [i \in Invs |-> NewInteraction]
    /\ owner_ids = {"u1"}
    /\ syncs = 0
    /\ closed = FALSE
    /\ connected = TRUE
    /\ history = <<>>
    /\ arrivals = 0
    /\ tasks = [i \in Invs |-> {}]
    /\ deleted_total = [i \in Invs |-> 0]
    /\ chunks = [i \in Invs |-> 0]
    /\ obs = [i \in Invs |-> NewObs]
    /\ Started
    /\ NoCall

NextPair ==
    \/ \E i \in active : PurgeStart(i)
    \/ \E i \in active, b \in Buttons : DispatchClick(i, user[i], b)
    \/ \E i \in active : \E t \in tasks[i] : RunClick(i, t)
    \/ \E i \in active : Timeout(i)
    \/ \E i \in active : PurgeResume(i)
    \/ \E i \in active : PurgeBatch(i)
    \/ \E i \in active : PurgeError(i)
    \/ \E i \in active : PurgeNotify(i)
    \/ \E i \in active : Reply(i)
    \/ \E i \in active : AskStart(i)
    \/ \E i \in active : AskGenerate(i)
    \/ \E i \in active : AskFirst(i)
    \/ \E i \in active : AskRest(i)
    \/ \E i \in active : AskExcept(i)
    \/ \E i \in active : WatchStart(i)
    \/ \E i \in active : WatchCreate(i)
    \/ \E i \in active : WatchSend(i)
    \/ \E i \in active : WatchExcept(i)
    \/ \E i \in active : SyncStart(i)
    \/ \E i \in active : SyncTree(i)
    \/ \E i \in active : SyncReply(i)
    \/ \E i \in active : TextCheck(i)
    \/ \E i \in active : LoadCog(i)
    \/ \E i \in active : UnloadCog(i)
    \/ \E i \in active : ReloadCog(i)
    \/ \E i \in active : Shutdown(i)
    \/ \E i \in active : Completion(i)
    \/ \E i \in active : OnAppCommandError(i)
    \/ \E i \in active : OnCommandError(i)

SpecPair == InitPair /\ [][NextPair]_vars

(* --------------------------- two concurrent purges -------------------- *)
\* Two purge invocations in flight: one by u1 in c1, the other by either user
\* in either channel.  Each channel holds a full batch and a partial one.
\* The users who click a prompt are the two invoking users, and each prompt
\* receives at most two clicks; the invocations are followed up to their
\* return.
InitPurges ==
    /\ MigratedStorage
    /\ active = {1, 2}
    /\ cmd = [i \in Invs |-> "purge"]
    /\ \E u \in Users :
         /\ user = [i \in Invs |-> IF i = 1 THEN "u1" ELSE u]
         /\ view = [i \in Invs |-> NewView(IF i = 1 THEN "u1" ELSE u)]
    /\ \E c \in Channels : chan = [i \in Invs |-> IF i = 1 THEN "c1" ELSE c]
    /\ arg = [i \in Invs |-> "admin"]
    /\ \E n \in PairCounts : msgs = [ch \in Channels |-> n]
    /\ isText = [i \in Invs |-> TRUE]
    /\ gemini = TRUE
    /\ extensions = Cogs
    /\ pc = [i \in Invs |-> "start"]
    /\ ia = [i \in Invs |-> NewInteraction]
    /\ owner_ids = {"u1"}
    /\ syncs = 0
    /\ closed = FALSE
    /\ connected = TRUE
    /\ history = <<>>
    /\ arrivals = 0
    /\ tasks = [i \in Invs |-> {}]
    /\ deleted_total = [i \in Invs |-> 0]
    /\ chunks = [i \in Invs |-> 0]
    /\ obs = [i \in Invs |-> NewObs]
    /\ Started
    /\ NoCall

NextPurges ==
    \/ \E i \in active : PurgeStart(i)
    \/ \E i \in active, j \in active, b \in Buttons :
         Clicks(i) <= 1 /\ DispatchClick(i, user[j], b)
    \/ \E i \in active : \E t \in tasks[i] : RunClick(i, t)
    \/ \E i \in active : Timeout(i)
    \/ \E i \in active : PurgeResume(i)
    \/ \E i \in active : PurgeBatch(i)
    \/ \E i \in active : PurgeError(i)
    \/ \E i \in active : PurgeNotify(i)

SpecPurges == InitPurges /\ [][NextPurges]_vars


(* --------------------------- process lifetime ------------------------- *)
\* A setup_hook that goes from the storage connection straight to the HTTP
\* session.
NextStep_SkipsMigrations(step) ==
    CASE step = "storage" -> "http"
      [] step = "migrations" -> "http"
      [] step = "http" -> "services"
      [] step = "services" -> "cogs"
      [] step = "cogs" -> "gateway"
      [] OTHER -> "running"

\* The step that follows a completed step: the statement order of setup_hook,
\* then the gateway connection that Client.start opens after login.
NextStep(step) ==
    CASE step = "storage" -> "migrations"
      [] step = "migrations" -> "http"
      [] step = "http" -> "services"
      [] step = "services" -> "cogs"
      [] step = "cogs" -> "gateway"
      [] OTHER -> "running"

\* A setup_hook that logs a failure of run_migrations and goes on.
AfterMigrations_GoesOn(m) == NextStep("migrations")

\* Where setup_hook stands after run_migrations ended in m: an exception is
\* not caught before main, which logs it and calls sys.exit(1).
AfterMigrations(m) == IF m = "raised" THEN "fatal" ELSE NextStep("migrations")

\* An adapter that is built without a key.
GeminiAdapter_Stubbed(key) == TRUE

\* self.gemini after setup_hook: GeminiService(key) if the key is set, None
\* otherwise.
GeminiAdapter(key) == key

\* What _load_cogs can leave loaded: a failing load_extension is logged and
\* skipped.  The failures drawn are those of the cogs the steps below read.
LoadOutcomes == {Cogs} \cup {Cogs \ {c} : c \in {"gemini", "general"}}

\* self.db = Database(path); await self.db.connect()
BootConnect ==
    /\ spc = "storage"
    /\ \E ok \in BOOLEAN :
         IF ok
         THEN /\ connected' = TRUE
              /\ spc' = NextStep("storage")
              /\ steps' = Append(steps, "storage")
         ELSE /\ spc' = "fatal"
              /\ UNCHANGED <<connected, steps>>
    /\ UNCHANGED <<inputVars, extensions, syncs, closed, history, pc, ia, msgs, arrivals,
                   view, tasks, deleted_total, chunks, obs>>
    /\ UNCHANGED <<gsVars, fnVars, migVars, api_key, http_session, gateway, synced, ready, cpc>>

\* await run_migrations(self.db): the call.
BootMigrate ==
    /\ spc = "migrations"
    /\ MigStart

\* run_migrations returned or raised.
BootMigrated ==
    /\ spc = "migrations"
    /\ mpc \in {"done", "raised"}
    /\ spc' = AfterMigrations(mpc)
    /\ steps' = IF mpc = "done" THEN Append(steps, "migrations") ELSE steps
    /\ UNCHANGED <<gsVars, fnVars, cmdVars, migVars, api_key, http_session, gateway, synced,
                   ready, cpc>>

\* self.http_session = aiohttp.ClientSession()
BootHttp ==
    /\ spc = "http"
    /\ http_session' = "open"
    /\ spc' = NextStep("http")
    /\ steps' = Append(steps, "http")
    /\ UNCHANGED <<gsVars, fnVars, cmdVars, migVars, api_key, gateway, synced, ready, cpc>>

\* The service adapters: Gemini when its key is set, Watch2Gether always.
BootServices ==
    /\ spc = "services"
    /\ gemini' = GeminiAdapter(api_key)
    /\ spc' = NextStep("services")
    /\ steps' = Append(steps, "services")
    /\ UNCHANGED <<active, cmd, user, arg, chan, isText, owner_ids, botVars, pc, ia,
                   msgs, arrivals, view, tasks, deleted_total, chunks, obs>>
    /\ UNCHANGED <<gsVars, fnVars, migVars, api_key, http_session, gateway, synced, ready, cpc>>

\* await self._load_cogs()
BootCogs ==
    /\ spc = "cogs"
    /\ \E e \in LoadOutcomes : extensions' = e
    /\ spc' = NextStep("cogs")
    /\ steps' = Append(steps, "cogs")
    /\ UNCHANGED <<inputVars, syncs, closed, connected, history, pc, ia, msgs, arrivals,
                   view, tasks, deleted_total, chunks, obs>>
    /\ UNCHANGED <<gsVars, fnVars, migVars, api_key, http_session, gateway, synced, ready, cpc>>

\* bot.start: after login and setup_hook, the gateway connection.
BootGateway ==
    /\ spc = "gateway"
    /\ \E ok \in BOOLEAN :
         IF ok
         THEN /\ gateway' = "connected"
              /\ spc' = NextStep("gateway")
              /\ steps' = Append(steps, "gateway")
         ELSE /\ spc' = "fatal"
              /\ UNCHANGED <<gateway, steps>>
    /\ UNCHANGED <<gsVars, fnVars, cmdVars, migVars, api_key, http_session, synced, ready, cpc>>

\* The k-th ready event: on_ready up to its first await, the test of _synced
\* and the call of tree.sync().
Ready(k) ==
    /\ spc = "running" /\ gateway = "connected"
    /\ ready[k].at = "none"
    /\ \A j \in ReadyIds : j < k => ready[j].at # "none"
    /\ IF ~synced
       THEN /\ ready' = [ready EXCEPT ![k].at = "syncing", ![k].issued = TRUE]
            /\ syncs' = syncs + 1
       ELSE /\ ready' = [ready EXCEPT ![k].at = "presence", ![k].sawSynced = TRUE]
            /\ UNCHANGED syncs
    /\ UNCHANGED <<inputVars, extensions, closed, connected, history, pc, ia, msgs,
                   arrivals, view, tasks, deleted_total, chunks, obs>>
    /\ UNCHANGED <<gsVars, fnVars, migVars, spc, api_key, http_session, gateway, synced, cpc, steps>>

\* tree.sync() of the k-th handler returns, and _synced is set, or raises,
\* which is logged.
ReadySync(k) ==
    /\ ready[k].at = "syncing"
    /\ \E ok \in BOOLEAN :
         /\ ready' = [ready EXCEPT ![k].at = "presence", ![k].ok = ok]
         /\ synced' = (synced \/ ok)
    /\ UNCHANGED <<gsVars, fnVars, cmdVars, migVars, spc, api_key, http_session, gateway, cpc, steps>>

\* change_presence, the last statement of on_ready.
ReadyPresence(k) ==
    /\ ready[k].at = "presence"
    /\ ready' = [ready EXCEPT ![k].at = "done"]
    /\ UNCHANGED <<gsVars, fnVars, cmdVars, migVars, spc, api_key, http_session, gateway, synced,
                   cpc, steps>>

\* A user invokes /ask on the connected bot.
Invoke(u) ==
    /\ spc = "running" /\ gateway = "connected"
    /\ active = {}
    /\ "gemini" \in extensions
    /\ active' = {1}
    /\ cmd' = [cmd EXCEPT ![1] = "ask"]
    /\ user' = [user EXCEPT ![1] = u]
    /\ pc' = [pc EXCEPT ![1] = "start"]
    /\ UNCHANGED <<arg, chan, isText, owner_ids, gemini, botVars, ia, msgs, arrivals,
                   view, tasks, deleted_total, chunks, obs>>
    /\ UNCHANGED <<gsVars, fnVars, migVars, lifeVars>>

\* InfiBot.close, first step: if self.http_session: await
\* self.http_session.close().  An exception leaves close().
CloseHttp ==
    /\ spc = "running"
    /\ cpc.at = "none"
    /\ IF http_session = "none"
       THEN /\ cpc' = [cpc EXCEPT !.at = "db"]
            /\ UNCHANGED http_session
       ELSE \E ok \in BOOLEAN :
              /\ http_session' = IF ok THEN "closed" ELSE http_session
              /\ cpc' = [at |-> IF ok THEN "db" ELSE "raised",
                         tried |-> cpc.tried \cup {"http"}]
    /\ UNCHANGED <<gsVars, fnVars, cmdVars, migVars, spc, api_key, gateway, synced, ready, steps>>

\* Second step: if self.db: await self.db.close()
CloseDb ==
    /\ cpc.at = "db"
    /\ \E ok \in BOOLEAN :
         /\ connected' = (connected /\ ~ok)
         /\ cpc' = [at |-> IF ok THEN "gateway" ELSE "raised",
                    tried |-> cpc.tried \cup {"db"}]
    /\ UNCHANGED <<inputVars, extensions, syncs, closed, history, pc, ia, msgs, arrivals,
                   view, tasks, deleted_total, chunks, obs>>
    /\ UNCHANGED <<gsVars, fnVars, migVars, spc, api_key, http_session, gateway, synced, ready, steps>>

\* Third step: await super().close(), which closes the gateway connection.
CloseGateway ==
    /\ cpc.at = "gateway"
    /\ gateway' = "closed"
    /\ closed' = TRUE
    /\ cpc' = [at |-> "closed", tried |-> cpc.tried \cup {"gateway"}]
    /\ UNCHANGED <<inputVars, extensions, syncs, connected, history, pc, ia, msgs,
                   arrivals, view, tasks, deleted_total, chunks, obs>>
    /\ UNCHANGED <<gsVars, fnVars, migVars, spc, api_key, http_session, synced, ready, steps>>

\* main: InfiBot(settings) constructed, bot.start about to run, on a storage
\* file that is new or was migrated by an earlier process.
InitBoot ==
    /\ active = {}
    /\ cmd = [i \in Invs |-> "none"]
    /\ user = [i \in Invs |-> "u1"]
    /\ arg = [i \in Invs |-> "admin"]
    /\ pc = [i \in Invs |-> "idle"]
    /\ ia = [i \in Invs |-> NewInteraction]
    /\ owner_ids = {"u1"}
    /\ gemini = FALSE
    /\ extensions = {}
    /\ syncs = 0
    /\ closed = FALSE
    /\ connected = FALSE
    /\ history = <<>>
    /\ chan = [i \in Invs |-> "c1"]
    /\ isText = [i \in Invs |-> TRUE]
    /\ msgs = [c \in Channels |-> 0]
    /\ arrivals = 0
    /\ view = [i \in Invs |-> NewView("u1")]
    /\ tasks = [i \in Invs |-> {}]
    /\ deleted_total = [i \in Invs |-> 0]
    /\ chunks = [i \in Invs |-> 0]
    /\ obs = [i \in Invs |-> NewObs]
    /\ \/ dbObjects = {} /\ versionRows = {}
       \/ dbObjects = SchemaObjects /\ versionRows = DOMAIN MIGRATIONS
    /\ txRows = {}
    /\ mpc = "idle"
    /\ current_version = 0
    /\ version = 0 /\ stmt = 0 /\ issued = 0
    /\ runs = 0
    /\ startRows = {}
    /\ spc = "storage"
    /\ api_key \in BOOLEAN
    /\ http_session = "none"
    /\ gateway = "none"
    /\ synced = FALSE
    /\ ready = [k \in ReadyIds |-> NoReady]
    /\ cpc = NoClose
    /\ steps = <<>>
    /\ NoCall

NextBoot ==
    \/ BootConnect
    \/ BootMigrate
    \/ MigRead
    \/ MigExec
    \/ MigRecord
    \/ MigCommit
    \/ BootMigrated
    \/ BootHttp
    \/ BootServices
    \/ BootCogs
    \/ BootGateway
    \/ \E k \in ReadyIds : Ready(k)
    \/ \E k \in ReadyIds : ReadySync(k)
    \/ \E k \in ReadyIds : ReadyPresence(k)
    \/ \E u \in Users : Invoke(u)
    \/ \E i \in active : AskStart(i)
    \/ \E i \in active : AskGenerate(i)
    \/ \E i \in active : AskFirst(i)
    \/ \E i \in active : AskRest(i)
    \/ \E i \in active : AskExcept(i)
    \/ \E i \in active : Completion(i)
    \/ \E i \in active : OnAppCommandError(i)
    \/ CloseHttp
    \/ CloseDb
    \/ CloseGateway

SpecBoot == InitBoot /\ [][NextBoot]_vars


(* -------------------- split_response and _get_prefix ------------------ *)
\* A text is the sequence of its characters.  "a" and "b" stand for the
\* characters that are not whitespace; the tab is whitespace that is no split
\* candidate.
Letters == {"a", "b"}
Whitespace == {" ", "\n", "\t"}
Chars == Letters \cup Whitespace

\* The texts of at most n characters of cs.
TextsOver(cs, n) == UNION {[1..k -> cs] : k \in 0..n}
TextsUpTo(n) == TextsOver(Chars, n)

\* str.rfind(sub): the highest 0-based index at which sub starts, or -1.
RECURSIVE rfind_from(_, _, _)
rfind_from(s, sub, k) ==
    IF k < 0 THEN -1
    ELSE IF SubSeq(s, k + 1, k + Len(sub)) = sub THEN k
    ELSE rfind_from(s, sub, k - 1)

rfind(s, sub) == rfind_from(s, sub, Len(s) - Len(sub))

\* A right trim that takes the last character whatever it is.
rstrip_DropsLast(s) == IF s = <<>> THEN s ELSE SubSeq(s, 1, Len(s) - 1)

\* str.rstrip(): without its trailing whitespace.
RECURSIVE rstrip(_)
rstrip(s) ==
    IF s # <<>> /\ s[Len(s)] \in Whitespace THEN rstrip(SubSeq(s, 1, Len(s) - 1)) ELSE s

\* A left trim that trims nothing.
lstrip_Keeps(s) == s

\* str.lstrip(): without its leading whitespace.
RECURSIVE lstrip(_)
lstrip(s) ==
    IF s # <<>> /\ Head(s) \in Whitespace THEN lstrip(Tail(s)) ELSE s

\* A slice that includes the character at the index.
Upto_Inclusive(s, k) == SubSeq(s, 1, Min(k + 1, Len(s)))

\* A rest that starts one character late.
From_SkipsOne(s, k) == SubSeq(s, k + 2, Len(s))

\* s[:k] and s[k:]
Upto(s, k) == SubSeq(s, 1, k)
From(s, k) == SubSeq(s, k + 1, Len(s))

\* A test without the midpoint: any candidate found is taken.
Rejected_NoMidpoint(pos, width) == pos = -1

\* The test that sends the search on to the next strategy.
Rejected(pos, width) == pos = -1 \/ pos < width \div 2

\* The split point of one iteration: paragraph break, then newline, then
\* space, then the hard split.
FindSplit(chunk, width) ==
    LET p1 == rfind(chunk, <<"\n", "\n">>)
        p2 == IF Rejected(p1, width) THEN rfind(chunk, <<"\n">>) ELSE p1
        p3 == IF Rejected(p2, width) THEN rfind(chunk, <<" ">>) ELSE p2
    IN  IF Rejected(p3, width) THEN width ELSE p3

\* A short text returned trimmed.
SplitWhole_Trims ==
    /\ fpc = "entry"
    /\ Len(text) <= max_length
    /\ split_chunks' = <<lstrip(text)>>
    /\ fpc' = "returned"
    /\ UNCHANGED <<text, max_length, remaining, split_pos, discord_prefix, bot_user, prefixes>>
    /\ UNCHANGED <<gsVars, cmdVars, migVars, lifeVars>>

\* if len(text) <= max_length: return [text]
SplitWhole ==
    /\ fpc = "entry"
    /\ Len(text) <= max_length
    /\ split_chunks' = <<text>>
    /\ fpc' = "returned"
    /\ UNCHANGED <<text, max_length, remaining, split_pos, discord_prefix, bot_user, prefixes>>
    /\ UNCHANGED <<gsVars, cmdVars, migVars, lifeVars>>

\* chunks = []; remaining = text
SplitBegin ==
    /\ fpc = "entry"
    /\ Len(text) > max_length
    /\ split_chunks' = <<>>
    /\ remaining' = text
    /\ fpc' = "loop"
    /\ UNCHANGED <<text, max_length, split_pos, discord_prefix, bot_user, prefixes>>
    /\ UNCHANGED <<gsVars, cmdVars, migVars, lifeVars>>

\* One iteration of the loop that cuts: the window, the split point, the
\* trimmed chunk and the trimmed rest.
SplitCut ==
    /\ fpc = "loop"
    /\ remaining # <<>>
    /\ Len(remaining) > max_length
    /\ LET chunk == Upto(remaining, max_length)
           pos == FindSplit(chunk, max_length)
       IN  /\ split_pos' = pos
           /\ split_chunks' = Append(split_chunks, rstrip(Upto(remaining, pos)))
           /\ remaining' = lstrip(From(remaining, pos))
    /\ UNCHANGED <<fpc, text, max_length, discord_prefix, bot_user, prefixes>>
    /\ UNCHANGED <<gsVars, cmdVars, migVars, lifeVars>>

\* The iteration whose rest fits: chunks.append(remaining); break
SplitLast ==
    /\ fpc = "loop"
    /\ remaining # <<>>
    /\ Len(remaining) <= max_length
    /\ split_chunks' = Append(split_chunks, remaining)
    /\ fpc' = "returned"
    /\ UNCHANGED <<text, max_length, remaining, split_pos, discord_prefix, bot_user, prefixes>>
    /\ UNCHANGED <<gsVars, cmdVars, migVars, lifeVars>>

\* The loop test fails: nothing remains.
SplitExit ==
    /\ fpc = "loop"
    /\ remaining = <<>>
    /\ fpc' = "returned"
    /\ UNCHANGED <<text, max_length, remaining, split_chunks, split_pos, discord_prefix,
                   bot_user, prefixes>>
    /\ UNCHANGED <<gsVars, cmdVars, migVars, lifeVars>>

\* commands.when_mentioned(bot, msg): the two mention forms, each a prefix
\* written as its tokens.
when_mentioned(id) == << <<"<@", id, "> ">>, <<"<@!", id, "> ">> >>

\* A resolution that returns the configured prefixes alone.
when_mentioned_or_ConfiguredOnly(ps, id) == ps

\* commands.when_mentioned_or(*prefixes)(bot, msg)
when_mentioned_or(ps, id) == when_mentioned(id) \o ps

\* InfiBot._get_prefix for one inbound message.
GetPrefix ==
    /\ fpc = "prefix"
    /\ prefixes' = when_mentioned_or(<<discord_prefix>>, bot_user)
    /\ fpc' = "resolved"
    /\ UNCHANGED <<text, max_length, remaining, split_chunks, split_pos, discord_prefix,
                   bot_user>>
    /\ UNCHANGED <<gsVars, cmdVars, migVars, lifeVars>>

\* The values settings.discord_prefix can hold: the default, another
\* character, two characters, the empty string, a mention form.
ConfiguredPrefixes == {<<"!">>, <<"?">>, <<"!", "!">>, <<>>, <<"<@", "b1", "> ">>}
BotUsers == {"b1", "b2"}

\* A call of split_response with one of the texts and any width, or a call of
\* _get_prefix under any configuration.
FnCall(texts) ==
    /\ NoInvocation
    /\ MigratedStorage
    /\ Started
    /\ remaining = <<>>
    /\ split_chunks = <<>>
    /\ split_pos = -1
    /\ prefixes = <<>>
    /\ NoGuildCall
    /\ \/ /\ fpc = "entry"
          /\ text \in texts
          /\ max_length \in 1..MaxWidth
          /\ discord_prefix = <<"!">>
          /\ bot_user = "b1"
       \/ /\ fpc = "prefix"
          /\ text = <<>>
          /\ max_length = 1
          /\ discord_prefix \in ConfiguredPrefixes
          /\ bot_user \in BotUsers

InitFn == FnCall(TextsUpTo(MaxLen))

NextFn ==
    \/ SplitWhole
    \/ SplitBegin
    \/ SplitCut
    \/ SplitLast
    \/ SplitExit
    \/ GetPrefix

SpecFn == InitFn /\ [][NextFn]_vars

\* A call that was started runs on: the function is synchronous code without
\* an await, so a step that is possible is taken.
InitFnLive == FnCall(TextsOver({"a", " ", "\n"}, MaxLen))

SpecFnLive == InitFnLive /\ [][NextFn]_vars /\ WF_vars(NextFn)

(* ------------------------ sequences of owner commands ----------------- *)
\* The cogs the text commands name.
NamedCogs == {"admin", "general"}

\* A message with a load, unload or reload command arrives and the framework
\* invokes it, as a new invocation in the place of one that has ended.
TextInvoke(i, c, u, a) ==
    /\ pc[i] \in {"idle", "done", "failed"}
    /\ active' = active \cup {i}
    /\ cmd' = [cmd EXCEPT ![i] = c]
    /\ user' = [user EXCEPT ![i] = u]
    /\ arg' = [arg EXCEPT ![i] = a]
    /\ pc' = [pc EXCEPT ![i] = "start"]
    /\ obs' = [obs EXCEPT ![i] = NewObs]
    /\ UNCHANGED <<chan, isText, owner_ids, gemini, botVars, ia, msgs, arrivals, view,
                   tasks, deleted_total, chunks>>
    /\ UNCHANGED <<gsVars, fnVars, migVars, lifeVars>>

\* The started bot with every cog loaded and no command invoked yet.
InitAdmin ==
    /\ NoInvocation
    /\ MigratedStorage
    /\ Started
    /\ NoCall

NextAdmin ==
    \/ \E i \in Invs, c \in {"load", "unload", "reload"}, u \in Users, a \in NamedCogs :
         TextInvoke(i, c, u, a)
    \/ \E i \in active : TextCheck(i)
    \/ \E i \in active : LoadCog(i)
    \/ \E i \in active : UnloadCog(i)
    \/ \E i \in active : ReloadCog(i)
    \/ \E i \in active : OnCommandError(i)

SpecAdmin == InitAdmin /\ [][NextAdmin]_vars

(* ----------------------------- guild settings ------------------------- *)
\* An INSERT without the ON CONFLICT clause into a table without its key.
upsert_PlainInsert(rows, g, p) == rows \cup {[guild_id |-> g, prefix |-> p]}

\* INSERT INTO guild_settings ... ON CONFLICT(guild_id) DO UPDATE SET prefix =
\* excluded.prefix: the row of the guild is rewritten, or a row is added.
upsert(rows, g, p) ==
    IF \E r \in rows : r.guild_id = g
    THEN {IF r.guild_id = g THEN [r EXCEPT !.prefix = p] ELSE r : r \in rows}
    ELSE rows \cup {[guild_id |-> g, prefix |-> p]}

\* get_guild_settings: fetchone of the rows of the guild; None when there is
\* no row, the prefix of the row fetched otherwise.
get_guild_settings(rows, g) ==
    IF {r \in rows : r.guild_id = g} = {} THEN {"not-found"}
    ELSE {r.prefix : r \in {x \in rows : x.guild_id = g}}

\* set_guild_prefix(db, g, p): the statement and the commit, or an exception
\* of the storage before the statement took effect.
SetGuildPrefix(g, p) ==
    /\ calls < MaxCalls
    /\ calls' = calls + 1
    /\ \E ok \in BOOLEAN :
         IF ok
         THEN /\ guild_settings' = upsert(guild_settings, g, p)
              /\ last_set' = [last_set EXCEPT ![g] = p]
         ELSE UNCHANGED <<guild_settings, last_set>>
    /\ UNCHANGED fetched
    /\ UNCHANGED <<fnVars, cmdVars, migVars, lifeVars>>

\* get_guild_settings(db, g) on the same connection.
GetGuildSettings(g) ==
    /\ calls < MaxCalls
    /\ calls' = calls + 1
    /\ \E v \in get_guild_settings(guild_settings, g) :
         fetched' = [guild_id |-> g, result |-> v]
    /\ UNCHANGED <<guild_settings, last_set>>
    /\ UNCHANGED <<fnVars, cmdVars, migVars, lifeVars>>

\* The migrated storage with an empty guild_settings table.
InitGuild ==
    /\ NoInvocation
    /\ MigratedStorage
    /\ Started
    /\ NoCall

NextGuild ==
    \/ \E g \in Guilds, p \in PrefixValues : SetGuildPrefix(g, p)
    \/ \E g \in Guilds : GetGuildSettings(g)

SpecGuild == InitGuild /\ [][NextGuild]_vars

(* ================================ claims ============================== *)
Finished(i) == pc[i] \in {"done", "failed"}

\* C1: when a confirmation session receives more than one resolving event (the
\* author's Confirm, the author's Cancel, the timeout), the outcome purge reads
\* after view.wait() is the first of them and the session is resolved exactly
\* once.
C1_FirstResolutionWins ==
    \A i \in active :
        obs[i].outcomeRead # "none" =>
            /\ obs[i].outcomeRead = obs[i].firstRes
            /\ obs[i].resolutions = 1

\* C2: an owner-only command invoked by a user outside the owner-id set is
\* denied and causes no side effect: no extension change, no registry sync, no
\* close, no history record.
C2_NonOwnerNoSideEffect ==
    \A i \in active :
        (cmd[i] \in OwnerCommands /\ ~is_owner(user[i])) =>
            /\ obs[i].effects = {}
            /\ pc[i] \notin {"body", "sync", "synced"}
            /\ \A k \in 1..Len(history) : history[k].inv # i

\* C3: channel.purge is called only after the author's Confirm set the
\* session's outcome to confirmed; when the outcome purge reads is declined or
\* timed out, purge asks the prompt to show the cancellation notice, issues no
\* delete call and sends no further message.
C3_DeleteOnlyAfterConfirm ==
    \A i \in active :
        /\ obs[i].deleteCalls > 0 =>
             /\ obs[i].outcomeRead = "confirm"
             /\ view[i].confirmed = "True"
             /\ view[i].defers >= 1
        /\ pc[i] \in {"loop", "purge_err", "notify"} => obs[i].outcomeRead = "confirm"
        /\ obs[i].outcomeRead \in {"cancel", "timeout"} =>
             /\ obs[i].deleteCalls = 0
             /\ obs[i].handlerMsgs = 0
             /\ obs[i].editReq \in {"Purge cancelled.", "Purge cancelled (timed out)."}
             /\ pc[i] \in {"returned", "done"} => obs[i].prompt = obs[i].editReq
             /\ msgs[chan[i]] = obs[i].n0

C3_Witness ==
    \E i \in active :
        /\ obs[i].deleteCalls > 0
        /\ obs[i].outcomeRead = "confirm"
        /\ Finished(i)

\* C4: a click of any user other than the author, on either button, leaves the
\* session as it was (outcome, finished or listening, timeout) and is answered
\* with the ephemeral notice only.
C4_OtherUserClickChangesNothing ==
    [][\A i \in active : \A t \in tasks[i] :
         (RunClick(i, t) /\ t.u # view[i].author_id) =>
             /\ view'[i].confirmed = view[i].confirmed
             /\ view'[i].stopped = view[i].stopped
             /\ view'[i].defers = view[i].defers
             /\ view'[i].notices = view[i].notices + 1
             /\ obs'[i].resolutions = obs[i].resolutions
             /\ pc' = pc]_vars

C4_Witness ==
    \E i \in active :
        /\ view[i].notices >= 2
        /\ view[i].stopped = "no"
        /\ view[i].confirmed = "None"
        /\ pc[i] = "wait"

\* C5: when the timeout fires and no click of the author was dispatched before
\* it, the outcome stays pending for good, purge reads it as timed out and asks
\* the prompt to show the timed-out notice, and deletes nothing; a click that
\* comes later is ignored.
C5_TimeoutIsFinal ==
    \A i \in active :
        (view[i].stopped = "timeout" /\ ~obs[i].authorArrived) =>
            /\ view[i].confirmed = "None"
            /\ obs[i].outcomeRead \in {"none", "timeout"}
            /\ obs[i].editReq \in {"none", "Purge cancelled (timed out)."}
            /\ pc[i] \in {"returned", "done"} =>
                 obs[i].prompt = "Purge cancelled (timed out)."
            /\ obs[i].deleteCalls = 0
            /\ pc[i] \notin {"loop", "purge_err", "notify"}

C5_Witness ==
    \E i \in active :
        /\ view[i].stopped = "timeout"
        /\ ~obs[i].authorArrived
        /\ obs[i].lateAuthor
        /\ pc[i] = "done"
        /\ obs[i].prompt = "Purge cancelled (timed out)."

\* A purge whose loop ran undisturbed: confirmed, no message arrived, no call
\* raised.
Undisturbed(i) ==
    /\ cmd[i] = "purge"
    /\ obs[i].outcomeRead = "confirm"
    /\ ~obs[i].arrived
    /\ obs[i].failedAt = 0

\* C6: a confirmed purge of a channel holding N messages, with no arrival and
\* no upstream failure, issues delete calls that each return a full batch of
\* 100 until one returns fewer; it then leaves the loop, having made
\* floor(N/100)+1 calls, and the total it holds and reports is N.  It never
\* makes more than floor(N/100)+1 calls.
C6_BatchesUntilShort ==
    \A i \in active : Undisturbed(i) =>
        LET b == obs[i].batches
            n == obs[i].n0 IN
        /\ obs[i].deleteCalls = Len(b)
        /\ obs[i].deleteCalls <= (n \div BatchSize) + 1
        /\ \A k \in 1..Len(b) : k < Len(b) => b[k] = BatchSize
        /\ deleted_total[i] = SumSeq(b)
        /\ (pc[i] = "loop" /\ Len(b) > 0) => b[Len(b)] = BatchSize
        /\ (pc[i] # "loop" /\ Len(b) > 0) =>
              /\ b[Len(b)] < BatchSize
              /\ obs[i].deleteCalls = (n \div BatchSize) + 1
              /\ deleted_total[i] = n
              /\ obs[i].doneReport \in {-1, n}
        /\ (Finished(i) /\ obs[i].chanSends > 0) => obs[i].doneReport = n

\* A purge of 250 messages finished with calls of 100, 100 and 50 and a
\* reported total of 250.
C6_Witness ==
    \E i \in active :
        /\ Undisturbed(i)
        /\ obs[i].n0 = 2 * BatchSize + 50
        /\ obs[i].batches = <<BatchSize, BatchSize, 50>>
        /\ obs[i].doneReport = 2 * BatchSize + 50
        /\ pc[i] = "done"

\* C7: when a delete call of a confirmed purge raises, the loop is left at
\* that call: no further delete call is issued, the completion notice is not
\* sent to the channel, and the total the error followup reports is the sum of
\* the batches that succeeded before the failure.
C7_FailureStopsPurge ==
    \A i \in active : obs[i].failedAt # 0 =>
        /\ pc[i] \notin {"loop", "notify"}
        /\ obs[i].outcomeRead = "confirm"
        /\ obs[i].deleteCalls = obs[i].failedAt
        /\ Len(obs[i].batches) = obs[i].failedAt - 1
        /\ obs[i].chanSends = 0
        /\ obs[i].doneReport = -1
        /\ obs[i].errReport \in {-1, SumSeq(obs[i].batches)}
        /\ pc[i] \in {"returned", "done"} => obs[i].errReport = SumSeq(obs[i].batches)

\* The third call raised after two full batches and the user was told 200.
C7_Witness ==
    \E i \in active :
        /\ obs[i].failedAt = 3
        /\ obs[i].batches = <<BatchSize, BatchSize>>
        /\ obs[i].errReport = 2 * BatchSize
        /\ obs[i].deleteCalls = 3
        /\ pc[i] = "done"

\* C8: the interaction of a slash command receives at most one initial
\* response (a message or a defer, never both), no call the platform forbids
\* is made on it, and followups and edits exist only on an interaction that
\* was responded to; this holds through the error handler as well.
C8_OneAcknowledgement ==
    \A i \in active : cmd[i] \in SlashCommands =>
        /\ ia[i].acks <= 1
        /\ ~ia[i].illegal
        /\ (ia[i].followups > 0 \/ ia[i].edits > 0) => ia[i].responded
        /\ ia[i].responded <=> ia[i].acks = 1

\* The error handler answered a failure of a command that had already
\* responded: its message went out as a followup.
C8_Witness ==
    \E i \in active :
        /\ cmd[i] \in SlashCommands
        /\ pc[i] = "failed"
        /\ ia[i].acks = 1
        /\ ia[i].followups > 0
        /\ obs[i].errReplies = 1

\* The watermark the storage holds: the highest committed version, 0 if none.
Watermark(rows) == IF rows = {} THEN 0 ELSE SetMax(rows)

\* C9: when run_migrations has returned normally, the watermark read back
\* from storage is the highest declared version, and it is committed.
C9_WatermarkIsCurrent ==
    (mpc = "done" /\ runs > 0 /\ Watermark(startRows) <= CURRENT_VERSION) =>
        /\ Watermark(versionRows) = CURRENT_VERSION
        /\ get_schema_version(dbObjects, versionRows, TRUE) = CURRENT_VERSION
        /\ txRows = {}

\* A run on storage without a watermark returned after issuing every
\* statement of the migration and its watermark row.
C9_Witness ==
    /\ mpc = "done"
    /\ runs > 0
    /\ startRows = {}
    /\ issued = Len(MIGRATIONS[CURRENT_VERSION]) + 1
    /\ versionRows = DOMAIN MIGRATIONS

\* C10: a run that starts with the stored watermark at the highest declared
\* version issues no statement, leaves the rows of schema_version as they
\* were, and returns.
C10_CurrentIsNoOp ==
    (mpc # "idle" /\ runs > 0 /\ Watermark(startRows) = CURRENT_VERSION) =>
        /\ issued = 0
        /\ versionRows = startRows
        /\ txRows = {}
        /\ mpc \in {"read", "done"}

\* The schema objects the statements of version v create.
ObjectsOf(v) == {MIGRATIONS[v][k] : k \in 1..Len(MIGRATIONS[v])}

\* C11: whenever a run of run_migrations has ended by an exception or a
\* crash, the storage looks as if every version had been applied atomically:
\* no object of a version above the persisted watermark exists.
C11_VersionsAreAtomic ==
    (mpc \in {"idle", "raised"} /\ runs > 0) =>
        \A v \in DOMAIN MIGRATIONS :
            v > Watermark(versionRows) => ObjectsOf(v) \cap dbObjects = {}

\* C12: the versions recorded in schema_version are the declared versions up
\* to the watermark, without a gap, and a watermark row is only ever inserted
\* for the version that follows the watermark, which is not yet recorded.
C12_ContiguousPrefix ==
    /\ [](versionRows = {v \in DOMAIN MIGRATIONS : v <= Watermark(versionRows)})
    /\ [][(mpc = "apply" /\ mpc' = "commit") =>
            /\ version \notin versionRows
            /\ version = Watermark(versionRows) + 1
            /\ txRows' = {version}]_vars

\* A run whose version query failed on a current storage executed the
\* statements of version 1 again and its INSERT was refused: the recorded set
\* is still {1}.
C12_Witness ==
    /\ mpc = "raised"
    /\ startRows = DOMAIN MIGRATIONS
    /\ issued = Len(MIGRATIONS[CURRENT_VERSION]) + 1
    /\ versionRows = DOMAIN MIGRATIONS

\* C13: the startup steps complete in the order storage connection,
\* migrations, HTTP session, service adapters, cogs, gateway; each resource
\* exists only once its step was reached, run_migrations runs while nothing
\* but the storage connection exists, and no command handler and no ready
\* handler runs before run_migrations has returned.
C13_StartupOrder ==
    LET order == <<"storage", "migrations", "http", "services", "cogs", "gateway">>
        done(k) == Len(steps) >= k
    IN /\ Len(steps) <= Len(order)
       /\ \A k \in 1..Len(steps) : steps[k] = order[k]
       /\ spc \in {"fatal", "running"} \/ (Len(steps) < Len(order) /\ spc = order[Len(steps) + 1])
       /\ spc = "running" => done(6)
       /\ connected => done(1)
       /\ mpc # "idle" => done(1)
       /\ mpc \in {"read", "apply", "commit"} => Len(steps) = 1
       /\ done(2) => mpc = "done"
       /\ http_session # "none" => done(2)
       /\ gemini => done(3)
       /\ extensions # {} => done(4)
       /\ gateway # "none" => done(5)
       /\ (active # {} \/ \E k \in ReadyIds : ready[k].at # "none" \/ cpc.at # "none")
             => (done(6) /\ mpc = "done")

\* A process that started on a new storage file applied the migration, went
\* through every step and then handled a ready event and an /ask.
C13_Witness ==
    /\ spc = "running"
    /\ steps = <<"storage", "migrations", "http", "services", "cogs", "gateway">>
    /\ startRows = {} /\ versionRows = DOMAIN MIGRATIONS
    /\ ready[1].at = "done"
    /\ \E i \in active : pc[i] = "done"

\* C14: when run_migrations raises during startup, setup_hook does not go
\* on: no HTTP session is opened, no adapter is built, no cog is loaded, the
\* gateway is never connected, no handler runs, and main exits with the fatal
\* error.
C14_MigrationFailureAborts ==
    mpc = "raised" =>
        /\ spc \in {"migrations", "fatal"}
        /\ steps = <<"storage">>
        /\ http_session = "none"
        /\ ~gemini
        /\ extensions = {}
        /\ gateway = "none"
        /\ active = {}
        /\ \A k \in ReadyIds : ready[k].at = "none"

\* A statement of version 1 raised after others had run, and the process
\* ended with the fatal error.
C14_Witness ==
    /\ mpc = "raised"
    /\ spc = "fatal"
    /\ issued > 1

\* C15: over all ready events of a process lifetime, handlers overlapping or
\* not, at most one on_ready handler completes a tree.sync(), and a handler
\* that found _synced set issues none.
C15_SyncOnce ==
    /\ Cardinality({k \in ReadyIds : ready[k].ok}) <= 1
    /\ \A k \in ReadyIds : ready[k].sawSynced => ~ready[k].issued

\* C16: without the AI credential startup is not aborted at the adapters,
\* the adapter stays absent, and an /ask is answered with the configuration
\* notice as its initial response: no defer, no call of the adapter, no
\* followup, and no exception unless the platform refused the response.
C16_MissingKeyDegrades ==
    ~api_key =>
        /\ ~gemini
        /\ spc = "fatal" => Len(steps) \in {0, 1, 5}
        /\ \A i \in active : cmd[i] = "ask" =>
              /\ pc[i] \in {"start", "returned", "raised", "done", "failed"}
              /\ chunks[i] = 0
              /\ obs[i].errKind = "none"
              /\ obs[i].handlerMsgs = 0
              /\ ia[i].followups = 0
              /\ "raw" \notin obs[i].shown
              /\ pc[i] \in {"returned", "done"} =>
                    (ia[i].acks = 1 /\ obs[i].shown = {"config"})
              /\ pc[i] = "raised" => ~ia[i].responded

\* Started without the credential, the bot answered an /ask with the
\* configuration notice.
C16_Witness ==
    /\ ~api_key
    /\ spc = "running"
    /\ \E i \in active : cmd[i] = "ask" /\ pc[i] = "done" /\ obs[i].shown = {"config"}

\* C17: when close() has ended, by returning or by an exception, each of its
\* three steps was attempted.
C17_CloseAttemptsAll ==
    cpc.at \in {"raised", "closed"} => cpc.tried = {"http", "db", "gateway"}

\* C18: the completion hook starts after the command's response was sent, and
\* running it, whether the write of the history row succeeds or raises, leaves
\* the interaction, the notices shown and the replies of the error handler as
\* they were.
C18_HistoryIsBestEffort ==
    /\ [](\A i \in active :
            /\ (pc[i] = "returned" /\ cmd[i] \in SlashCommands) => ia[i].responded
            /\ obs[i].hookFailed =>
                  (pc[i] = "done" /\ obs[i].errReplies = 0 /\ "generic" \notin obs[i].shown))
    /\ [][\A i \in active :
            (pc[i] = "returned" /\ pc'[i] # "returned") =>
                /\ pc'[i] = "done"
                /\ ia'[i] = ia[i]
                /\ obs'[i].shown = obs[i].shown
                /\ obs'[i].errReplies = obs[i].errReplies
                /\ obs'[i].handlerMsgs = obs[i].handlerMsgs
                /\ obs'[i].prompt = obs[i].prompt]_vars

\* The write of the history row raised after /ping had answered.
C18_Witness ==
    \E i \in active :
        /\ cmd[i] = "ping"
        /\ obs[i].hookFailed
        /\ pc[i] = "done"
        /\ ia[i].acks = 1

\* C19: after a failure that is not one of the classified kinds the user is
\* never shown a notice that carries the text of the exception, and what the
\* top-level handlers show is the generic notice.
C19_NoRawExceptionText ==
    \A i \in active :
        /\ obs[i].errKind = "unclassified" => "raw" \notin obs[i].shown
        /\ (pc[i] = "failed" /\ obs[i].errReplies > 0 /\ ~obs[i].denied) =>
              "generic" \in obs[i].shown

\* Invocation j takes a step into one of its failure positions.
FailureStep(j) ==
    /\ pc'[j] # pc[j]
    /\ pc'[j] \in {"raised", "failed", "except", "purge_err", "traised", "notowner"}

\* C20: a step by which one invocation fails, or by which a top-level error
\* handler deals with its failure, leaves every other invocation as it was:
\* its position, its interaction, its confirmation view and queued clicks,
\* its deleted count, what it has shown and the messages of its channel.  A
\* failure never closes the bot, and a confirmed purge running beside the
\* failing invocation still deletes and reports every message of its channel.
C20_FailureIsIsolated ==
    /\ [](closed => \E j \in active : cmd[j] = "shutdown" /\ "close" \in obs[j].effects)
    /\ [](\A i \in active :
            (Undisturbed(i) /\ pc[i] \in {"returned", "done"}) =>
                (deleted_total[i] = obs[i].n0 /\ obs[i].doneReport = obs[i].n0))
    /\ [][\A i \in active : \A j \in active \ {i} :
            FailureStep(j) =>
                /\ pc'[i] = pc[i]
                /\ ia'[i] = ia[i]
                /\ view'[i] = view[i]
                /\ tasks'[i] = tasks[i]
                /\ deleted_total'[i] = deleted_total[i]
                /\ obs'[i] = obs[i]
                /\ msgs'[chan[i]] = msgs[chan[i]]
                /\ closed' = closed]_vars

\* A command failed and was answered by the error handler while the purge
\* beside it was confirmed, deleted the channel and reported its count.
C20_Witness ==
    /\ pc[2] = "failed"
    /\ obs[2].errReplies = 1
    /\ pc[1] = "done"
    /\ obs[1].outcomeRead = "confirm"
    /\ obs[1].batches = <<BatchSize, 50>>
    /\ obs[1].doneReport = BatchSize + 50

(* ----------------------- split_response, _get_prefix ------------------ *)
\* The characters of a text that are no whitespace, in order.
Visible(t) == SelectSeq(t, LAMBDA c : c \notin Whitespace)

RECURSIVE Concat(_)
Concat(cs) == IF cs = <<>> THEN <<>> ELSE Head(cs) \o Concat(Tail(cs))

\* C21: every chunk split_response has built, and so every chunk it returns,
\* is at most max_length characters long.
C21_ChunksFit ==
    \A k \in DOMAIN split_chunks : Len(split_chunks[k]) <= max_length

\* A text was cut more than once, one chunk filling the whole width and
\* whitespace trimmed at a cut.
C21_Witness ==
    /\ fpc = "returned"
    /\ Len(split_chunks) >= 3
    /\ \E k \in DOMAIN split_chunks : Len(split_chunks[k]) = max_length
    /\ Len(Concat(split_chunks)) < Len(text)

\* C22: split_response returns a non-empty sequence exactly when its input
\* text is non-empty.
C22_NonEmptyIffInput ==
    fpc = "returned" => (split_chunks # <<>> <=> text # <<>>)

\* t is cs[1], a run of whitespace, cs[2], a run of whitespace, and so on.
RECURSIVE Rejoins(_, _)
Rejoins(t, cs) ==
    IF cs = <<>> THEN \A k \in DOMAIN t : t[k] \in Whitespace
    ELSE LET c == Head(cs)
         IN  /\ Len(c) <= Len(t)
             /\ SubSeq(t, 1, Len(c)) = c
             /\ \E w \in 0..(Len(t) - Len(c)) :
                  /\ \A k \in (Len(c) + 1)..(Len(c) + w) : t[k] \in Whitespace
                  /\ Rejoins(SubSeq(t, Len(c) + w + 1, Len(t)), Tail(cs))

\* C23: the returned chunks, in order, are the input with runs of whitespace
\* taken out between them: the characters that are no whitespace are the
\* input's, in the input's order, and putting a run of whitespace back after
\* each chunk gives the input.
C23_RejoinsToInput ==
    fpc = "returned" =>
        /\ Visible(Concat(split_chunks)) = Visible(text)
        /\ Rejoins(text, split_chunks)

\* A text was cut and whitespace was dropped at the cut, while whitespace
\* away from the cut was kept.
C23_Witness ==
    /\ fpc = "returned"
    /\ Len(split_chunks) >= 2
    /\ Len(Concat(split_chunks)) < Len(text)
    /\ \E k \in DOMAIN split_chunks : \E n \in DOMAIN split_chunks[k] :
         /\ split_chunks[k][n] \in Whitespace
         /\ 1 < n /\ n < Len(split_chunks[k])

\* C24: a text of at most max_length characters is returned as one chunk,
\* equal to the text, whitespace at its ends included.
C24_ShortTextUnchanged ==
    (fpc = "returned" /\ Len(text) <= max_length) => split_chunks = <<text>>

\* A text that fills the width exactly, with whitespace at both ends, was
\* returned.
C24_Witness ==
    /\ fpc = "returned"
    /\ Len(text) = max_length
    /\ Head(text) \in Whitespace
    /\ text[Len(text)] \in Whitespace
    /\ split_chunks = <<text>>

\* C25: _get_prefix returns a non-empty list that holds the configured prefix
\* and the mention of the bot, whatever the configured value is.
C25_PrefixesHoldDefaultAndMention ==
    fpc = "resolved" =>
        /\ prefixes # <<>>
        /\ \E k \in DOMAIN prefixes : prefixes[k] = discord_prefix
        /\ \E k \in DOMAIN prefixes : prefixes[k] = <<"<@", bot_user, "> ">>

\* The prefixes were resolved under an empty configured prefix.
C25_Witness ==
    /\ fpc = "resolved"
    /\ discord_prefix = <<>>
    /\ Len(prefixes) = 3

\* C26: every iteration of the loop that cuts leaves a strictly shorter
\* remaining text, also when its split point is 0, and so every call returns.
C26_EachIterationConsumes ==
    /\ [][(fpc = "loop" /\ fpc' = "loop") => Len(remaining') < Len(remaining)]_vars
    /\ (fpc = "entry") ~> (fpc = "returned")

\* A call returned after an iteration whose split point was 0.
C26_Witness ==
    /\ fpc = "returned"
    /\ split_pos = 0
    /\ Len(split_chunks) >= 2

\* The starts of sub in chunk, 0-based, and the last of them.
Starts(chunk, sub) ==
    {k \in 0..(Len(chunk) - Len(sub)) : SubSeq(chunk, k + 1, k + Len(sub)) = sub}
LastStart(chunk, sub) ==
    IF Starts(chunk, sub) = {} THEN -1
    ELSE CHOOSE k \in Starts(chunk, sub) : \A j \in Starts(chunk, sub) : j <= k

\* The candidates of a window in the order of the strategies.
Candidates(chunk) ==
    <<LastStart(chunk, <<"\n", "\n">>), LastStart(chunk, <<"\n">>), LastStart(chunk, <<" ">>)>>

\* The cut of a window: the first candidate at or past the midpoint, or the
\* width.
ExpectedCut(chunk, width) ==
    LET cand == Candidates(chunk)
        good == {n \in 1..3 : cand[n] # -1 /\ cand[n] >= width \div 2}
    IN  IF good = {} THEN width
        ELSE cand[CHOOSE n \in good : \A m \in good : n <= m]

\* C27: an iteration over a remaining text longer than max_length cuts at the
\* first of last paragraph break, last line break, last space of its window
\* that lies at or past max_length / 2 (rounded down), and at max_length when
\* none does; the chunk is the part before the cut without its trailing
\* whitespace, the rest the part from the cut without its leading whitespace.
C27_CutAtFirstQualifying ==
    [][(fpc = "loop" /\ Len(remaining) > max_length) =>
          LET cut == ExpectedCut(SubSeq(remaining, 1, max_length), max_length)
          IN  /\ split_pos' = cut
              /\ split_chunks' = Append(split_chunks, rstrip(SubSeq(remaining, 1, cut)))
              /\ remaining' = lstrip(SubSeq(remaining, cut + 1, Len(remaining)))]_vars

\* The first window of a text was cut at its paragraph break although a line
\* break lies further right in it.
C27_Witness ==
    /\ fpc = "loop"
    /\ Len(split_chunks) = 1
    /\ LET chunk == SubSeq(text, 1, max_length)
       IN  /\ split_pos = LastStart(chunk, <<"\n", "\n">>)
           /\ split_pos >= max_length \div 2
           /\ LastStart(chunk, <<"\n">>) > split_pos

\* C28: a text without whitespace that is longer than max_length is returned
\* as its consecutive slices of max_length characters, the last slice holding
\* what is left.
C28_HardCutsAreSlices ==
    (fpc = "returned" /\ Len(text) > max_length /\ Visible(text) = text) =>
        LET L == Len(text)
            n == (L + max_length - 1) \div max_length
        IN  /\ Len(split_chunks) = n
            /\ \A k \in 1..n :
                 split_chunks[k] = SubSeq(text, (k - 1) * max_length + 1, Min(k * max_length, L))

\* A text without whitespace was returned as three slices, the last one
\* shorter than the width.
C28_Witness ==
    /\ fpc = "returned"
    /\ Visible(text) = text
    /\ Len(split_chunks) = 3
    /\ Len(split_chunks[3]) < max_length
    /\ Len(split_chunks[1]) = max_length

(* ------------------------- two concurrent purges ---------------------- *)
\* A step on the confirmation session of invocation j: a click dispatched to
\* its prompt, a callback of its view run, or its timeout fired.
SessionStep(j) == tasks'[j] # tasks[j] \/ view'[j] # view[j]

\* C29: of two purges in flight, a click or a timeout on the prompt of one
\* leaves the view, the queued clicks and the outcome of the other unchanged;
\* the outcome an invocation reads is the one its own author's click or its
\* own timeout produced; a deleted total changes only by the invocation's own
\* batch, and it is the sum of the invocation's own batches, so that two
\* purges of one channel never count a message twice.
C29_SessionsAreSeparate ==
    /\ [](\A i \in active :
            /\ deleted_total[i] = SumSeq(obs[i].batches)
            /\ obs[i].outcomeRead \in {"confirm", "cancel"} => obs[i].authorArrived
            /\ obs[i].outcomeRead = "timeout" => view[i].stopped = "timeout")
    /\ [](chan[1] = chan[2] =>
            deleted_total[1] + deleted_total[2] + msgs[chan[1]] = BatchSize + 50)
    /\ [][\A i \in active : \A j \in active \ {i} :
            /\ SessionStep(j) =>
                 /\ view'[i] = view[i]
                 /\ tasks'[i] = tasks[i]
                 /\ obs'[i] = obs[i]
                 /\ pc'[i] = pc[i]
            /\ deleted_total'[j] # deleted_total[j] =>
                 /\ deleted_total'[i] = deleted_total[i]
                 /\ obs'[i].batches = obs[i].batches
                 /\ pc[j] = "loop"]_vars

\* Two users purged the same channel at once and both confirmed: the first
\* deleted one full batch, the second the rest, and each reported its own
\* total.
C29_Witness ==
    /\ chan[1] = chan[2]
    /\ user[1] # user[2]
    /\ obs[1].outcomeRead = "confirm"
    /\ obs[2].outcomeRead = "confirm"
    /\ obs[1].doneReport = BatchSize
    /\ obs[2].doneReport = 50

(* --------------------------- the version query ------------------------ *)
\* C30: run_migrations takes the watermark to be 0 only when the storage
\* holds no schema_version table or no row in it, and so it never starts to
\* apply a version that is already recorded.
C30_ZeroOnlyWhenUninitialized ==
    /\ [][(mpc = "read" /\ mpc' \in {"apply", "done"} /\ current_version' = 0) =>
            ("schema_version" \notin dbObjects \/ versionRows \cup txRows = {})]_vars
    /\ [](mpc = "apply" => version \notin versionRows)

(* ------------------------- the empty response ------------------------- *)
\* C31: when the upstream call returned a response without text, generate
\* raised instead of returning: the invocation called the adapter once, sent
\* no chunk, and sent at most one followup, which is the failure message; the
\* handler that returned has sent exactly that one.
C31_EmptyResponseFails ==
    \A i \in active :
        (cmd[i] = "ask" /\ obs[i].noText) =>
            /\ obs[i].errKind = "empty"
            /\ obs[i].genCalls = 1
            /\ obs[i].sends = <<>>
            /\ chunks[i] = 0
            /\ ia[i].followups <= 1
            /\ ia[i].followups = Cardinality(obs[i].shown)
            /\ pc[i] \in {"returned", "done"} =>
                 (ia[i].followups = 1 /\ obs[i].shown = {"raw"} /\ obs[i].errReplies = 0)

\* An /ask whose upstream response had no text has returned after its one
\* failure followup.
C31_Witness ==
    \E i \in active :
        /\ cmd[i] = "ask"
        /\ obs[i].noText
        /\ pc[i] = "done"
        /\ ia[i].followups = 1
        /\ obs[i].sends = <<>>

(* --------------------------- the history records ---------------------- *)
\* C32: the history holds no record of an invocation whose handler met a
\* failure, and at most one record of any invocation, one
\* when the hook's write went through; every record carries the success flag;
\* a step only ever appends to the history.
C32_HistoryOnlyForSuccess ==
    /\ [](\A i \in active :
            LET rows == {k \in 1..Len(history) : history[k].inv = i} IN
            /\ Cardinality(rows) <= 1
            /\ (obs[i].errKind # "none" \/ pc[i] \in {"raised", "failed"}) => rows = {}
            /\ (pc[i] = "done" /\ ~obs[i].hookFailed /\ "history" \in obs[i].effects)
                  => Cardinality(rows) = 1)
    /\ [](\A k \in 1..Len(history) : history[k].success)
    /\ [][\E n \in 0..1 : /\ Len(history') = Len(history) + n
                         /\ SubSeq(history', 1, Len(history)) = history]_vars

(* ----------------------------- guild settings ------------------------- *)
\* C33: guild_settings never holds two rows of one guild; what a
\* get_guild_settings call returned is the prefix of the last set for that
\* guild that took effect, or not-found when there was none; a set for one
\* guild leaves the rows of every other guild as they were.
C33_UpsertPerGuild ==
    /\ [](\A g \in Guilds : Cardinality({r \in guild_settings : r.guild_id = g}) <= 1)
    /\ [](\A g \in Guilds :
            /\ last_set[g] = "unset" <=> {r \in guild_settings : r.guild_id = g} = {}
            /\ \A r \in guild_settings : r.guild_id = g => r.prefix = last_set[g])
    /\ [][fetched' # fetched =>
            fetched'.result = IF last_set[fetched'.guild_id] = "unset" THEN "not-found"
                              ELSE last_set[fetched'.guild_id]]_vars
    /\ [][\A g \in Guilds :
            last_set'[g] = last_set[g] =>
                {r \in guild_settings' : r.guild_id = g} = {r \in guild_settings : r.guild_id = g}]_vars

\* The prefix of a guild was set twice, to a text and then to NULL, another
\* guild has its own row, and a get returned the later value.
C33_Witness ==
    /\ fetched = [guild_id |-> "g1", result |-> "NULL"]
    /\ calls = MaxCalls
    /\ guild_settings = {[guild_id |-> "g1", prefix |-> "NULL"], [guild_id |-> "g2", prefix |-> "?"]}

(* ------------------------ split_response, long texts ------------------ *)
\* C34: for a text longer than max_length, no chunk split_response returned
\* is the empty string.
C34_NoEmptyChunk ==
    (fpc = "returned" /\ Len(text) > max_length) =>
        \A k \in DOMAIN split_chunks : split_chunks[k] # <<>>

(* ------------------------------ /ask, sends --------------------------- *)
\* C35: an /ask that returned without a failure sent every chunk of the split
\* text once and in the order of the text, the first as the followup of the
\* interaction and each later one as a channel message; while it runs, the
\* chunks sent so far are the first chunks of the text in that order.
C35_ChunksInOrder ==
    \A i \in active :
        cmd[i] = "ask" =>
            /\ \A k \in DOMAIN obs[i].sends :
                 /\ obs[i].sends[k].chunk = k
                 /\ obs[i].sends[k].via = IF k = 1 THEN "followup" ELSE "channel"
            /\ Len(obs[i].sends) <= obs[i].total
            /\ (pc[i] \in {"returned", "done"} /\ obs[i].errKind = "none" /\ obs[i].genCalls = 1) =>
                 /\ Len(obs[i].sends) = obs[i].total
                 /\ ia[i].followups = 1
                 /\ obs[i].handlerMsgs = obs[i].total

\* An /ask whose text was split into the largest number of chunks returned
\* after sending all of them.
C35_Witness ==
    \E i \in active :
        /\ cmd[i] = "ask"
        /\ pc[i] = "done"
        /\ obs[i].errKind = "none"
        /\ obs[i].total = MaxChunks
        /\ Len(obs[i].sends) = MaxChunks

(* --------------------------- on_ready, failed sync -------------------- *)
\* C36: _synced is true only if a sync issued by on_ready completed
\* successfully; a sync attempt that fails leaves the flag false and on_ready
\* goes on to its next statement; the ready event after a failed attempt
\* issues a sync again.
C36_FailedSyncRetried ==
    /\ [](synced => \E k \in ReadyIds : ready[k].issued /\ ready[k].ok)
    /\ [][\A k \in ReadyIds :
            (ready[k].at = "syncing" /\ ready'[k].at # "syncing" /\ ~ready'[k].ok) =>
                (~synced' /\ ready'[k].at = "presence")]_vars
    /\ [][\A k \in ReadyIds :
            (/\ k > 1
             /\ ready[k].at = "none" /\ ready'[k].at # "none"
             /\ ready[k - 1].issued /\ ~ready[k - 1].ok
             /\ ready[k - 1].at \in {"presence", "done"}
             /\ ~synced) => ready'[k].issued]_vars

(* ------------------------- storage handle, closed --------------------- *)
\* C38: an operation on a handle without a connection writes nothing; when
\* Database.close returned the handle holds no connection; once shutdown
\* (InfiBot.close) has ended, the history hook fails rather than writing.
C38_ClosedHandleRefuses ==
    /\ [][~connected => history' = history]_vars
    /\ [](cpc.at \in {"gateway", "closed"} => ~connected)
    /\ [][cpc.at \in {"raised", "closed"} => history' = history]_vars

(* ------------------------------ the admin cog ------------------------- *)
\* C37: through every sequence of load, unload and reload commands the admin
\* cog stays loaded; the step of an owner's unload naming the admin cog leaves
\* the loaded extensions as they were, and when its send succeeded the
\* refusal notice was shown.
C37_AdminStaysLoaded ==
    /\ []("admin" \in extensions)
    /\ [][\A i \in Invs :
            (/\ pc[i] = "body" /\ cmd[i] = "unload" /\ arg[i] = "admin"
             /\ pc'[i] # "body") =>
                /\ extensions' = extensions
                /\ obs'[i].effects = {}
                /\ pc'[i] = "done" => obs'[i].shown = {"refused"}]_vars

\* An owner's unload of the admin cog was refused with the notice while an
\* earlier unload had removed another cog.
C37_Witness ==
    /\ "general" \notin extensions
    /\ \E i \in active :
         /\ cmd[i] = "unload" /\ arg[i] = "admin" /\ user[i] \in owner_ids
         /\ pc[i] = "done"
         /\ obs[i].shown = {"refused"}

====
